---- MODULE Spec2Model ----
(***************************************************************************)
(* A model of MRVG-Pathfinder (src/src/mrvg): the polygon raycast kernel   *)
(* of shapes.py, the node bookkeeping of node.py and the incremental       *)
(* visibility graph and A* search of graph.py.                             *)
(*                                                                         *)
(* Coordinates are integers of a small grid.  Every quotient the code      *)
(* forms (ray parameters r_t, t_t, r_i, r_f) is kept as an exact fraction  *)
(* <<numerator, denominator>> with a positive denominator in lowest terms, *)
(* so that the order and equality tests of the code are decided exactly.   *)
(* Lengths (math.dist) are fixed-point: the integer square root of the     *)
(* squared length scaled by Scale * Scale.  Two routes of the same exact   *)
(* length have the same key here, while their float sums in the code can   *)
(* differ in the last bit: find_path then picks between them by rounding   *)
(* and the model by (g, point).  The length of every result, whether it is *)
(* None and whether it is the direct [s, e] are those of the code.         *)
(***************************************************************************)
EXTENDS Integers, Sequences, FiniteSets, TLC

(***************************************************************************)
(* Bounds of the model.                                                    *)
(***************************************************************************)
GridMaxX == 2       \* x coordinates range over 0 .. GridMaxX
GridMaxY == 3       \* y coordinates range over 0 .. GridMaxY
MaxPolygons == 2    \* Polygon objects constructed in one behaviour
Scale == 1000       \* fixed-point unit of a length: 1 / Scale

CoordsX == 0 .. GridMaxX
CoordsY == 0 .. GridMaxY
Points == CoordsX \X CoordsY

(***************************************************************************)
(* Integer helpers and exact fractions.                                    *)
(***************************************************************************)
Abs(n) == IF n < 0 THEN -n ELSE n

RECURSIVE Gcd(_, _)
Gcd(a, b) == IF b = 0 THEN a ELSE Gcd(b, a % b)

\* n / d for d # 0, as a fraction in lowest terms with a positive denominator
Frac(n, d) ==
    LET g == Gcd(Abs(n), Abs(d))
        s == IF d < 0 THEN -1 ELSE 1
    IN  << (s * n) \div g, (s * d) \div g >>

FZero == << 0, 1 >>
FOne == << 1, 1 >>
FLess(p, q) == p[1] * q[2] < q[1] * p[2]
FLeq(p, q) == p[1] * q[2] <= q[1] * p[2]
FMax(p, q) == IF FLess(p, q) THEN q ELSE p
FMin(p, q) == IF FLess(q, p) THEN q ELSE p

RECURSIVE ISqrtBits(_, _, _)
\* floor of the square root of n, by bisection on lo <= root < hi
ISqrtBits(n, lo, hi) ==
    IF hi - lo <= 1 THEN lo
    ELSE LET mid == (lo + hi) \div 2
         IN  IF mid * mid <= n THEN ISqrtBits(n, mid, hi) ELSE ISqrtBits(n, lo, mid)

MaxDist2 == GridMaxX * GridMaxX + GridMaxY * GridMaxY
DistTable == [d2 \in 0 .. MaxDist2 |-> ISqrtBits(d2 * Scale * Scale, 0, (GridMaxX + GridMaxY + 1) * Scale)]

\* math.dist(p, q)
Dist(p, q) == DistTable[(p[1] - q[1]) * (p[1] - q[1]) + (p[2] - q[2]) * (p[2] - q[2])]

(***************************************************************************)
(* shapes.py: vector helpers.                                              *)
(***************************************************************************)
CrossProduct(v1, v2) == v1[1] * v2[2] - v1[2] * v2[1]
VecSubtract(v1, v2) == << v1[1] - v2[1], v1[2] - v2[2] >>

(***************************************************************************)
(* shapes.py: the outcome of intersecting the ray with one target segment  *)
(* is False (no contribution), True (a full cross) or a RaycastSegment     *)
(* (start, stop, side).                                                    *)
(***************************************************************************)
SegFalse == [kind |-> "False", start |-> FZero, stop |-> FZero, side |-> 0]
SegTrue == [kind |-> "True", start |-> FZero, stop |-> FZero, side |-> 0]
Segment(start, stop, side) == [kind |-> "segment", start |-> start, stop |-> stop, side |-> side]

ColinearSegmentsOverlappingRegion(r_o, r_d, t_o, t_d) ==
    LET axis == IF Abs(r_d[1]) > Abs(r_d[2]) THEN 1 ELSE 2
        den == r_d[axis]
        kNeg == (t_d[axis] < 0 /\ den > 0) \/ (t_d[axis] > 0 /\ den < 0)
        \* the region from r_i to r_f, r_i <= r_f
        Region(r_i, r_f, side) ==
            IF FLess(FOne, r_i) \/ FLess(r_f, FZero) THEN SegFalse
            ELSE Segment(FMax(FZero, r_i), FMin(FOne, r_f), side)
        \* the ray parameters of the two ends of the target, swapped when k < 0
        Ordered(ri0, rf0) ==
            IF kNeg THEN Region(rf0, ri0, -1) ELSE Region(ri0, rf0, 1)
    IN  IF den = 0 THEN SegFalse
        ELSE Ordered(Frac(t_o[axis] - r_o[axis], den),
                     Frac(t_o[axis] - r_o[axis] + t_d[axis], den))

\* _raycast_segment with one side tag for a graze at either end of the target
RaycastSegmentOneTag(r_o, r_d, t_o, t_d) ==
    LET rd_cross_td == CrossProduct(r_d, t_d)
        delta_o == VecSubtract(t_o, r_o)
    IN  IF rd_cross_td = 0
        THEN IF CrossProduct(delta_o, r_d) # 0 THEN SegFalse
             ELSE ColinearSegmentsOverlappingRegion(r_o, r_d, t_o, t_d)
        ELSE LET Crossing(r_t, t_t) ==
                     IF ~(FLess(FZero, r_t) /\ FLess(r_t, FOne)) THEN SegFalse
                     ELSE IF FLess(FZero, t_t) /\ FLess(t_t, FOne) THEN SegTrue
                     ELSE IF t_t = FZero \/ t_t = FOne
                          THEN Segment(r_t, r_t, IF rd_cross_td > 0 THEN 1 ELSE -1)
                     ELSE SegFalse
             IN  Crossing(Frac(CrossProduct(delta_o, t_d), rd_cross_td),
                          Frac(CrossProduct(delta_o, r_d), rd_cross_td))

RaycastSegment(r_o, r_d, t_o, t_d) ==
    LET rd_cross_td == CrossProduct(r_d, t_d)
        delta_o == VecSubtract(t_o, r_o)
    IN  IF rd_cross_td = 0
        THEN IF CrossProduct(delta_o, r_d) # 0 THEN SegFalse
             ELSE ColinearSegmentsOverlappingRegion(r_o, r_d, t_o, t_d)
        ELSE LET Crossing(r_t, t_t) ==
                     IF ~(FLess(FZero, r_t) /\ FLess(r_t, FOne)) THEN SegFalse
                     ELSE IF FLess(FZero, t_t) /\ FLess(t_t, FOne) THEN SegTrue
                     ELSE IF t_t = FZero
                          THEN Segment(r_t, r_t, IF rd_cross_td > 0 THEN 1 ELSE -1)
                     ELSE IF t_t = FOne
                          THEN Segment(r_t, r_t, IF rd_cross_td > 0 THEN -1 ELSE 1)
                     ELSE SegFalse
             IN  Crossing(Frac(CrossProduct(delta_o, t_d), rd_cross_td),
                          Frac(CrossProduct(delta_o, r_d), rd_cross_td))

(***************************************************************************)
(* shapes.py: RaycastResult.  segments is None when the ray is blocked:    *)
(* the record keeps a flag for None beside the list.                       *)
(***************************************************************************)
NewRaycastResult == [blocked |-> FALSE, segments |-> << >>]
BlockedResult == [blocked |-> TRUE, segments |-> << >>]

RemoveAt(seq, i) == [j \in 1 .. (Len(seq) - 1) |-> IF j < i THEN seq[j] ELSE seq[j + 1]]
InsertAt(seq, i, x) ==
    [j \in 1 .. (Len(seq) + 1) |-> IF j < i THEN seq[j] ELSE IF j = i THEN x ELSE seq[j - 1]]

\* bisect.bisect_left(self.segments, (start, -inf, -2)) on the list sorted by start:
\* the 1-based position of the first segment whose start is not below start
BisectLeftStart(segments, start) ==
    Cardinality({j \in 1 .. Len(segments) : FLess(segments[j].start, start)}) + 1

RECURSIVE AddSegmentWalk(_, _, _, _, _)
\* the while loop of add_segment at position i with the running stop
AddSegmentWalk(segments, i, start, stop, side) ==
    IF i > Len(segments) \/ FLess(start, segments[i].start)
    THEN [blocked |-> FALSE, segments |-> InsertAt(segments, i, Segment(start, stop, side))]
    ELSE IF segments[i].side # side THEN BlockedResult
    ELSE AddSegmentWalk(RemoveAt(segments, i), i, start, FMax(stop, segments[i].stop), side)

\* RaycastResult.add_segment: the result after the call (its return value is .blocked)
AddSegment(result, seg) ==
    IF result.blocked THEN result
    ELSE AddSegmentWalk(result.segments, BisectLeftStart(result.segments, seg.start),
                        seg.start, seg.stop, seg.side)

Grazed(result) == ~result.blocked /\ Len(result.segments) > 0
Free(result) == ~result.blocked /\ Len(result.segments) = 0

(***************************************************************************)
(* shapes.py: Polygon and Rectangle.  A polygon object is the record       *)
(* [rect, verts]: verts is the vertex ring as given to the constructor and *)
(* rect tells a Rectangle (which overrides includes_point) from a plain    *)
(* Polygon.  The baked data of a vertex is computed from the ring.         *)
(***************************************************************************)
Polygon(ccw_vertices) == [rect |-> FALSE, verts |-> ccw_vertices]

Rectangle(left, bottom, right, top) ==
    [rect |-> TRUE,
     verts |-> << <<left, bottom>>, <<right, bottom>>, <<right, top>>, <<left, top>> >>]

RectLeft(o) == o.verts[1][1]
RectBottom(o) == o.verts[1][2]
RectRight(o) == o.verts[3][1]
RectTop(o) == o.verts[3][2]

\* BakeVertex with the ring taken as clockwise: the convexity test has the wrong sign
BakeVertexClockwise(o, i) ==
    LET n == Len(o.verts)
        v == o.verts[i]
        p == o.verts[IF i = 1 THEN n ELSE i - 1]
        nx == o.verts[(i % n) + 1]
        pv == VecSubtract(v, p)
        vn == VecSubtract(nx, v)
    IN  [x |-> v[1], y |-> v[2], convex |-> CrossProduct(pv, vn) < 0,
         vec_from_prev_vertex |-> pv, vec_to_next_vertex |-> vn]

\* Polygon._bake_vertices: the Vertex baked for position i of the ring
BakeVertex(o, i) ==
    LET n == Len(o.verts)
        v == o.verts[i]
    IN  IF n < 2
        THEN [x |-> v[1], y |-> v[2], convex |-> TRUE,
              vec_from_prev_vertex |-> <<0, 0>>, vec_to_next_vertex |-> <<0, 0>>]
        ELSE LET p == o.verts[IF i = 1 THEN n ELSE i - 1]
                 nx == o.verts[(i % n) + 1]
                 pv == VecSubtract(v, p)
                 vn == VecSubtract(nx, v)
             IN  [x |-> v[1], y |-> v[2], convex |-> CrossProduct(pv, vn) > 0,
                  vec_from_prev_vertex |-> pv, vec_to_next_vertex |-> vn]

\* self.vertex_map[v]: a later vertex of the ring replaces an earlier one at the same place
VertexMapAt(o, v) ==
    BakeVertex(o, CHOOSE i \in 1 .. Len(o.verts) :
                     /\ o.verts[i] = v
                     /\ \A j \in (i + 1) .. Len(o.verts) : o.verts[j] # v)

InVertexMap(o, v) == \E i \in 1 .. Len(o.verts) : o.verts[i] = v

\* the coordinates of the vertices the ring bakes as convex
ConvexPoints(o) == {o.verts[i] : i \in {j \in 1 .. Len(o.verts) : BakeVertex(o, j).convex}}

\* the test that finds no direction too narrow
VertexVectorDirectionTooNarrowNever(o, v, x, y) == FALSE

\* the test with a direction parallel to an adjacent edge counted as too narrow
VertexVectorDirectionTooNarrowOrParallel(o, v, x, y) ==
    LET Narrow(a, c) ==
            LET a_cross_b == a[1] * y - a[2] * x
                c_cross_b == x * c[2] - y * c[1]
            IN  a_cross_b * c_cross_b <= 0
        At(vert) == Narrow(vert.vec_from_prev_vertex, vert.vec_to_next_vertex)
    IN  At(VertexMapAt(o, v))

\* Polygon.vertex_vector_direction_too_narrow(v, x, y)
VertexVectorDirectionTooNarrow(o, v, x, y) ==
    LET Narrow(a, c) ==
            LET a_cross_b == a[1] * y - a[2] * x
                c_cross_b == x * c[2] - y * c[1]
            IN  a_cross_b * c_cross_b < 0
        At(vert) == Narrow(vert.vec_from_prev_vertex, vert.vec_to_next_vertex)
    IN  At(VertexMapAt(o, v))

\* Polygon.includes_point raises NotImplementedError; Rectangle overrides it
IncludesPointRaises(o) == ~o.rect

\* Rectangle.includes_point(x, y)
IncludesPoint(o, p) ==
    /\ RectLeft(o) <= p[1] /\ p[1] <= RectRight(o)
    /\ RectBottom(o) <= p[2] /\ p[2] <= RectTop(o)

RECURSIVE PolygonRaycastFrom(_, _, _, _, _)
\* the loop of Polygon.raycast over raycast_segmented from vertex i on
PolygonRaycastFrom(o, origin, direction, r, i) ==
    IF i > Len(o.verts) THEN r
    ELSE LET Added(r2) ==
                 IF r2.blocked THEN BlockedResult
                 ELSE PolygonRaycastFrom(o, origin, direction, r2, i + 1)
             Yielded(seg) ==
                 IF seg.kind = "False" THEN PolygonRaycastFrom(o, origin, direction, r, i + 1)
                 ELSE IF seg.kind = "True" THEN BlockedResult
                 ELSE Added(AddSegment(r, seg))
         IN  Yielded(RaycastSegment(origin, direction, o.verts[i],
                                    BakeVertex(o, i).vec_to_next_vertex))

\* Polygon.raycast(origin, direction, update_result)
PolygonRaycast(o, origin, direction, update_result) ==
    IF Len(o.verts) < 2 THEN update_result
    ELSE PolygonRaycastFrom(o, origin, direction, update_result, 1)

(***************************************************************************)
(* graph.py: Graph.raycast.  polys maps every Polygon object (its identity *)
(* is a number) to its record, obs is Graph._obstacles, prio is the        *)
(* prioritised obstacle or NoPolygon for None.  The call                   *)
(* obstacle.raycast(x0, y0, x1, y1, result) is the ray with origin         *)
(* (x0, y0) and direction (x1 - x0, y1 - y0).  The set is walked in the    *)
(* order of the identities.                                                *)
(***************************************************************************)
NoPolygon == 0

RECURSIVE GraphRaycastLoop(_, _, _, _, _, _, _)
GraphRaycastLoop(polys, obs, origin, direction, prio, result, id) ==
    IF id > Len(polys) THEN result
    ELSE IF id \notin obs \/ id = prio
         THEN GraphRaycastLoop(polys, obs, origin, direction, prio, result, id + 1)
    ELSE LET Updated(r2) ==
                 IF r2.blocked THEN r2
                 ELSE GraphRaycastLoop(polys, obs, origin, direction, prio, r2, id + 1)
         IN  Updated(PolygonRaycast(polys[id], origin, direction, result))

GraphRaycast(polys, obs, p0, p1, prio) ==
    LET direction == VecSubtract(p1, p0)
        Others(first) ==
            IF first.blocked THEN first
            ELSE GraphRaycastLoop(polys, obs, p0, direction, prio, first, 1)
    IN  Others(IF prio # NoPolygon
               THEN PolygonRaycast(polys[prio], p0, direction, NewRaycastResult)
               ELSE NewRaycastResult)

(***************************************************************************)
(* The state.                                                              *)
(*   polygons   the Polygon objects constructed so far; the identity of an *)
(*              object is its position in this list                        *)
(*   obstacles  Graph._obstacles, a set of identities                      *)
(*   nodes      Graph._nodes, a map from coordinates to Node               *)
(*   call       the last call made on the graph and how it ended           *)
(*   result     the value the last call returned (None is << >>)           *)
(*   lock       Graph._lock: the thread that holds it, or NoThread         *)
(*   adding     for each thread, where it is in add_obstacle and the       *)
(*              locals of the call                                         *)
(*   astar_sets an AStarSets object on its own, << >> when there is none   *)
(*   search     the locals of a find_path that runs step by step           *)
(***************************************************************************)
VARIABLES polygons, obstacles, nodes, call, result, lock, adding, astar_sets, search

vars == << polygons, obstacles, nodes, call, result, lock, adding, astar_sets, search >>

(***************************************************************************)
(* node.py: Node, TouchingObstacles and Connections.  A Node is the record *)
(* [convex, all, concave_count, outgoing, incoming]; outgoing and incoming *)
(* hold the coordinates of the linked nodes.                               *)
(***************************************************************************)
NewNode == [convex |-> {}, all |-> {}, concave_count |-> 0, outgoing |-> {}, incoming |-> {}]

\* Node.concave (TouchingObstacles.any_concave)
Concave(n) == n.concave_count > 0

\* TouchingObstacles.add: the node after the call
TouchingAdd(n, obstacle, is_convex) ==
    IF is_convex
    THEN [n EXCEPT !.all = @ \union {obstacle}, !.convex = @ \union {obstacle}]
    ELSE [n EXCEPT !.all = @ \union {obstacle}, !.concave_count = @ + 1]

\* TouchingObstacles.add: its return value became_concave
TouchingAddBecameConcave(n, is_convex) == ~is_convex /\ n.concave_count = 0

\* TouchingObstacles.update: the node after the call
TouchingUpdate(n, obs, is_convex) ==
    IF is_convex
    THEN [n EXCEPT !.all = @ \union obs, !.convex = @ \union obs]
    ELSE [n EXCEPT !.all = @ \union obs, !.concave_count = @ + Cardinality(obs)]

\* Connections.all
ConnectionsAll(n) == n.outgoing \union n.incoming

\* Link that records the connection at the calling node only
LinkOneWay(ns, a, b) ==
    [p \in DOMAIN ns |->
        IF p = a THEN [ns[p] EXCEPT !.incoming = @ \union {b}, !.outgoing = @ \union {b}]
        ELSE ns[p]]

\* Connections.link(other) called on the node at a
Link(ns, a, b) ==
    [p \in DOMAIN ns |->
        IF a = b /\ p = a
        THEN [ns[p] EXCEPT !.outgoing = @ \union {a}, !.incoming = @ \union {a}]
        ELSE IF p = a
        THEN [ns[p] EXCEPT !.incoming = @ \union {b}, !.outgoing = @ \union {b}]
        ELSE IF p = b
        THEN [ns[p] EXCEPT !.outgoing = @ \union {a}, !.incoming = @ \union {a}]
        ELSE ns[p]]

\* Connections.sever_in(from_other) called on the node at a
SeverIn(ns, a, b) ==
    [p \in DOMAIN ns |->
        LET n1 == IF p = a THEN [ns[p] EXCEPT !.incoming = @ \ {b}] ELSE ns[p]
        IN  IF p = b THEN [n1 EXCEPT !.outgoing = @ \ {a}] ELSE n1]

\* Connections.sever_out(to_other) called on the node at a
SeverOut(ns, a, b) ==
    [p \in DOMAIN ns |->
        LET n1 == IF p = a THEN [ns[p] EXCEPT !.outgoing = @ \ {b}] ELSE ns[p]
        IN  IF p = b THEN [n1 EXCEPT !.incoming = @ \ {a}] ELSE n1]

\* Connections.sever(node) called on the node at a
Sever(ns, a, b) ==
    LET ns1 == IF b \in ns[a].incoming THEN SeverIn(ns, a, b) ELSE ns
    IN  IF b \in ns1[a].outgoing THEN SeverOut(ns1, a, b) ELSE ns1

\* Connections.sever() called on the node at a
SeverAll(ns, a) ==
    [p \in DOMAIN ns |->
        IF p = a THEN [ns[p] EXCEPT !.incoming = {}, !.outgoing = {}]
        ELSE LET n1 == IF p \in ns[a].incoming THEN [ns[p] EXCEPT !.outgoing = @ \ {a}]
                       ELSE ns[p]
             IN  IF p \in ns[a].outgoing THEN [n1 EXCEPT !.incoming = @ \ {a}] ELSE n1]

RECURSIVE SeverAllEach(_, _)
\* sever() on every node of a set, in any order
SeverAllEach(ns, S) ==
    IF S = {} THEN ns
    ELSE LET a == CHOOSE x \in S : TRUE
         IN  SeverAllEach(SeverAll(ns, a), S \ {a})

RECURSIVE SeverEach(_, _)
\* sever(other) for every pair <<node, other>> of a set, in any order
SeverEach(ns, pairs) ==
    IF pairs = {} THEN ns
    ELSE LET pq == CHOOSE x \in pairs : TRUE
         IN  SeverEach(Sever(ns, pq[1], pq[2]), pairs \ {pq})

RECURSIVE LinkEach(_, _)
\* link(other) for every pair <<node, other>> of a set, in any order
LinkEach(ns, pairs) ==
    IF pairs = {} THEN ns
    ELSE LET pq == CHOOSE x \in pairs : TRUE
         IN  LinkEach(Link(ns, pq[1], pq[2]), pairs \ {pq})

\* the view graph.py takes of a node's connections: connections.map gives each
\* linked node with the distance to it, connections.tuple the linked nodes
ConnectionsMap(ns, p) == [q \in ConnectionsAll(ns[p]) |-> Dist(p, q)]
ConnectionsTuple(ns, p) == ConnectionsAll(ns[p])

(***************************************************************************)
(* graph.py: Graph._add_obstacle_locked, phase by phase.  polys and obs    *)
(* are the Polygon objects and Graph._obstacles at the call, obstacle is   *)
(* the identity of the polygon being inserted.                             *)
(***************************************************************************)

\* Graph._get_or_create_node: whether the node has to be created
\* _get_or_create_node that makes a new node whether or not the table holds one
CreatedAlways(ns, p) == TRUE

Created(ns, p) == p \notin DOMAIN ns

\* Graph._get_encompassing_obstacles raises as soon as it reaches a plain Polygon,
\* and update() consumes the whole generator before it registers anything
GetEncompassingObstaclesRaises(polys, obs) == \E o \in obs : IncludesPointRaises(polys[o])

GetEncompassingObstacles(polys, obs, p) == {o \in obs : IncludesPoint(polys[o], p)}

RECURSIVE ConvexVertexLoop(_, _, _, _, _)
\* lines 107-125: the loop over obstacle.vertices from vertex i on; st is
\* [nodes, created_convex_nodes, raised]
ConvexVertexLoop(polys, obs, obstacle, st, i) ==
    IF i > Len(polys[obstacle].verts) \/ st.raised THEN st
    ELSE LET \* the node is in the table with the obstacle registered: lines 119-125
             Registered(p, created, became_concave, n1, ns1) ==
                 ConvexVertexLoop(polys, obs, obstacle,
                                  [nodes |-> IF became_concave THEN SeverAll(ns1, p) ELSE ns1,
                                   created_convex_nodes |->
                                       IF created /\ ~Concave(n1)
                                       THEN st.created_convex_nodes \union {p}
                                       ELSE st.created_convex_nodes,
                                   raised |-> FALSE],
                                  i + 1)
             \* node.encompassing_obstacles.add(obstacle, True) on the node n0
             Register(p, created, n0, n1) ==
                 Registered(p, created, TouchingAddBecameConcave(n0, TRUE), n1,
                            (p :> n1) @@ st.nodes)
             \* the node of _get_or_create_node, updated when it was created
             Node(p, created) ==
                 IF created /\ GetEncompassingObstaclesRaises(polys, obs)
                 THEN [st EXCEPT !.nodes = (p :> NewNode) @@ st.nodes, !.raised = TRUE]
                 ELSE LET Got(n0) == Register(p, created, n0, TouchingAdd(n0, obstacle, TRUE))
                      IN  Got(IF created
                              THEN TouchingUpdate(NewNode,
                                                  GetEncompassingObstacles(polys, obs, p), FALSE)
                              ELSE st.nodes[p])
             Vertex(v) ==
                 IF ~v.convex THEN ConvexVertexLoop(polys, obs, obstacle, st, i + 1)
                 ELSE Node(<< v.x, v.y >>, Created(st.nodes, << v.x, v.y >>))
         IN  Vertex(BakeVertex(polys[obstacle], i))

\* lines 127-141: does the sweep over the existing nodes raise?  It does at the
\* first node that does not hold the obstacle yet, when includes_point raises
TouchSweepRaises(polys, ns, obstacle) ==
    /\ IncludesPointRaises(polys[obstacle])
    /\ \E p \in DOMAIN ns : obstacle \notin ns[p].all

\* TouchSweep without the sever() of the nodes that became concave
TouchSweepKeepsLinks(polys, ns, obstacle) ==
    [p \in DOMAIN ns |->
        IF obstacle \notin ns[p].all /\ IncludesPoint(polys[obstacle], p)
        THEN TouchingAdd(ns[p], obstacle, FALSE)
        ELSE ns[p]]

\* lines 127-141: register the obstacle as a concave touch of the nodes it includes
TouchSweep(polys, ns, obstacle) ==
    LET touched == {p \in DOMAIN ns : /\ obstacle \notin ns[p].all
                                      /\ IncludesPoint(polys[obstacle], p)}
        became_concave == {p \in touched : TouchingAddBecameConcave(ns[p], FALSE)}
        ns1 == [p \in DOMAIN ns |->
                   IF p \in touched THEN TouchingAdd(ns[p], obstacle, FALSE) ELSE ns[p]]
    IN  SeverAllEach(ns1, became_concave)

\* lines 148-168: is the connection from node to other severed?
SeverDecision(polys, obs, ns, obstacle, node, other) ==
    \/ /\ obstacle \in ns[node].convex
       /\ VertexVectorDirectionTooNarrow(polys[obstacle], node,
                                         other[1] - node[1], other[2] - node[2])
    \/ GraphRaycast(polys, obs, node, other, obstacle).blocked

\* lines 143-168: sever the connections the new obstacle blocks
SeverBlocked(polys, obs, ns, obstacle) ==
    SeverEach(ns, {pq \in (DOMAIN ns) \X (DOMAIN ns) :
                     /\ ~Concave(ns[pq[1]])
                     /\ pq[2] \in ConnectionsTuple(ns, pq[1])
                     /\ SeverDecision(polys, obs, ns, obstacle, pq[1], pq[2])})

\* the decision of phase D without the test that skips a concave other
LinkDecisionConcaveToo(polys, obs, ns, obstacle, node, other) ==
    /\ node # other
    /\ other \notin DOMAIN ConnectionsMap(ns, node)
    /\ ~\E o \in ns[node].convex :
           VertexVectorDirectionTooNarrow(polys[o], node,
                                          other[1] - node[1], other[2] - node[2])
    /\ ~\E o \in ns[other].convex :
           VertexVectorDirectionTooNarrow(polys[o], other,
                                          node[1] - other[1], node[2] - other[2])
    /\ ~GraphRaycast(polys, obs, node, other, obstacle).blocked

\* lines 172-214: is the created node linked to other?
LinkDecision(polys, obs, ns, obstacle, node, other) ==
    /\ node # other
    /\ ~Concave(ns[other])
    /\ other \notin DOMAIN ConnectionsMap(ns, node)
    /\ ~\E o \in ns[node].convex :
           VertexVectorDirectionTooNarrow(polys[o], node,
                                          other[1] - node[1], other[2] - node[2])
    /\ ~\E o \in ns[other].convex :
           VertexVectorDirectionTooNarrow(polys[o], other,
                                          node[1] - other[1], node[2] - other[2])
    /\ ~GraphRaycast(polys, obs, node, other, obstacle).blocked

\* phase D run for every convex node of the obstacle, created by the call or found
LinkCreatedOrFound(polys, obs, ns, obstacle, created_convex_nodes) ==
    LinkEach(ns, {pq \in {p \in DOMAIN ns : obstacle \in ns[p].convex /\ ~Concave(ns[p])}
                            \X (DOMAIN ns) :
                    LinkDecision(polys, obs, ns, obstacle, pq[1], pq[2])})

\* lines 170-214: create connections to and from the new convex nodes
LinkCreated(polys, obs, ns, obstacle, created_convex_nodes) ==
    LinkEach(ns, {pq \in created_convex_nodes \X (DOMAIN ns) :
                    LinkDecision(polys, obs, ns, obstacle, pq[1], pq[2])})

\* Graph._add_obstacle_locked after its assertion: [nodes, raised]
AddObstacleLocked(polys, obs, ns, obstacle) ==
    LET \* phases C and D on the nodes b that phase B leaves
        Connect(a, b) ==
            [nodes |-> LinkCreated(polys, obs, SeverBlocked(polys, obs, b, obstacle),
                                   obstacle, a.created_convex_nodes),
             raised |-> FALSE]
        \* phase B on the outcome a of phase A
        Sweep(a) ==
            IF a.raised THEN [nodes |-> a.nodes, raised |-> TRUE]
            ELSE IF TouchSweepRaises(polys, a.nodes, obstacle)
            THEN [nodes |-> a.nodes, raised |-> TRUE]
            ELSE Connect(a, TouchSweep(polys, a.nodes, obstacle))
    IN  Sweep(ConvexVertexLoop(polys, obs, obstacle,
                               [nodes |-> ns, created_convex_nodes |-> {}, raised |-> FALSE],
                               1))

(***************************************************************************)
(* The calls.  call.raised names the exception the call ended with, or is  *)
(* "" when it returned.                                                    *)
(***************************************************************************)
NoPoint == << -1, -1 >>
None == << >>

Call(op, obstacle, start_point, end_point, raised) ==
    [op |-> op, obstacle |-> obstacle, start_point |-> start_point,
     end_point |-> end_point, raised |-> raised]

\* add_obstacle with polygons compared by their vertices instead of by identity
DoAddObstacleByValue(polys, obstacle) ==
    IF \E o \in obstacles : polys[o] = polys[obstacle]
    THEN /\ call' = Call("add_obstacle", obstacle, NoPoint, NoPoint, "AssertionError")
         /\ UNCHANGED << obstacles, nodes >>
    ELSE LET Ended(r) ==
                 /\ nodes' = r.nodes
                 /\ obstacles' = IF r.raised THEN obstacles ELSE obstacles \union {obstacle}
                 /\ call' = Call("add_obstacle", obstacle, NoPoint, NoPoint,
                                 IF r.raised THEN "NotImplementedError" ELSE "")
         IN  Ended(AddObstacleLocked(polys, obstacles, nodes, obstacle))

\* Graph.add_obstacle(obstacle) on the polygon objects polys
DoAddObstacle(polys, obstacle) ==
    IF obstacle \in obstacles
    THEN /\ call' = Call("add_obstacle", obstacle, NoPoint, NoPoint, "AssertionError")
         /\ UNCHANGED << obstacles, nodes >>
    ELSE LET Ended(r) ==
                 /\ nodes' = r.nodes
                 /\ obstacles' = IF r.raised THEN obstacles ELSE obstacles \union {obstacle}
                 /\ call' = Call("add_obstacle", obstacle, NoPoint, NoPoint,
                                 IF r.raised THEN "NotImplementedError" ELSE "")
         IN  Ended(AddObstacleLocked(polys, obstacles, nodes, obstacle))

\* the rectangles and the plain polygons the behaviours construct
Rectangles ==
    {Rectangle(l, b, r, t) : << l, b, r, t >> \in
        {q \in CoordsX \X CoordsY \X CoordsX \X CoordsY : q[1] < q[3] /\ q[2] < q[4]}}

Triangle == Polygon(<< <<0, 0>>, <<GridMaxX, 0>>, <<0, GridMaxX>> >>)
Ell == Polygon(<< <<0, 0>>, <<GridMaxX, 0>>, <<GridMaxX, 1>>, <<1, 1>>, <<1, GridMaxX>>,
                  <<0, GridMaxX>> >>)
Polygons == {Triangle, Ell}

\* the threads that call add_obstacle; a thread outside add_obstacle is Idle
NumThreads == 2
Threads == 1 .. NumThreads
NoThread == 0
Idle == [pc |-> "idle", obstacle |-> NoPolygon, created_convex_nodes |-> {}]

\* no find_path is running step by step
NoSearch == [pc |-> "idle", current |-> << >>, complete |-> FALSE, iterations |-> 0]

Init ==
    /\ polygons = << >>
    /\ obstacles = {}
    /\ nodes = << >>
    /\ call = Call("init", NoPolygon, NoPoint, NoPoint, "")
    /\ result = None
    /\ lock = NoThread
    /\ adding = [t \in Threads |-> Idle]
    /\ astar_sets = << >>
    /\ search = NoSearch

\* graph.add_obstacle(Rectangle(left, bottom, right, top))
AddRectangle ==
    \E o \in Rectangles :
        /\ call.op # "find_path"
        /\ Len(polygons) < MaxPolygons
        /\ polygons' = Append(polygons, o)
        /\ DoAddObstacle(polygons', Len(polygons'))
        /\ result' = None
        /\ UNCHANGED << lock, adding, astar_sets, search >>

\* graph.add_obstacle(Polygon(vertices))
AddPolygon ==
    \E o \in Polygons :
        /\ call.op # "find_path"
        /\ Len(polygons) < MaxPolygons
        /\ polygons' = Append(polygons, o)
        /\ DoAddObstacle(polygons', Len(polygons'))
        /\ result' = None
        /\ UNCHANGED << lock, adding, astar_sets, search >>

\* graph.add_obstacle(o) for a polygon object o that was passed to it before
AddObstacleAgain ==
    \E obstacle \in 1 .. Len(polygons) :
        /\ call.op # "find_path"
        /\ DoAddObstacle(polygons, obstacle)
        /\ result' = None
        /\ UNCHANGED << polygons, lock, adding, astar_sets, search >>

NextGraph == AddRectangle \/ AddPolygon \/ AddObstacleAgain

SpecGraph == Init /\ [][NextGraph]_vars

(***************************************************************************)
(* graph.py: PathfindingNode and AStarSets.  previous is << >> for None    *)
(* and << record >> otherwise.  The sort key is (-f, g, point, id(n)); a   *)
(* point has at most one record in the open list, so id(n) never decides   *)
(* and the key is modelled as (-f, g, point).                              *)
(***************************************************************************)
PathfindingNode(point, g, h, previous) ==
    [point |-> point, g |-> g, h |-> h, previous |-> previous]

F(n) == n.g + n.h

\* open_sort_key(a) < open_sort_key(b)
KeyLess(a, b) ==
    \/ -F(a) < -F(b)
    \/ /\ F(a) = F(b)
       /\ \/ a.g < b.g
          \/ /\ a.g = b.g
             /\ \/ a.point[1] < b.point[1]
                \/ a.point[1] = b.point[1] /\ a.point[2] < b.point[2]

NewAStarSets == [opened |-> << >>, closed |-> {}, sorted_open |-> << >>, failed |-> FALSE]

\* the map opened without the key p
DelKey(opened, p) == [q \in (DOMAIN opened) \ {p} |-> opened[q]]

\* take_best that pops the front of the list
TakeFirstNode(sets) == sets.sorted_open[1]

\* AStarSets.take_best: the sets after the call; the record returned is the last of the list
TakeBestNode(sets) == sets.sorted_open[Len(sets.sorted_open)]

TakeBest(sets) ==
    LET pn == TakeBestNode(sets)
    IN  [sets EXCEPT !.sorted_open = SubSeq(@, 1, Len(@) - 1),
                     !.opened = DelKey(@, pn.point),
                     !.closed = @ \union {pn.point}]

\* bisect.bisect_left(sorted_open, key(existing), key = open_sort_key), 1-based
BisectLeft(sorted_open, existing) ==
    Cardinality({j \in 1 .. Len(sorted_open) : KeyLess(sorted_open[j], existing)}) + 1

\* an insertion at the end of the list whatever the key
InsortAtEnd(sorted_open, pn) == Append(sorted_open, pn)

\* bisect.insort(sorted_open, pn, key = open_sort_key): after the entries not above pn
Insort(sorted_open, pn) ==
    InsertAt(sorted_open,
             Cardinality({j \in 1 .. Len(sorted_open) : ~KeyLess(pn, sorted_open[j])}) + 1,
             pn)

\* AStarSets.open(pn); failed records that the assertion of line 56 did not hold
Open(sets, pn) ==
    IF pn.point \in DOMAIN sets.opened
    THEN LET existing == sets.opened[pn.point]
             i == BisectLeft(sets.sorted_open, existing)
         IN  IF pn.g >= existing.g THEN sets
             ELSE IF i > Len(sets.sorted_open) \/ sets.sorted_open[i] # existing
             THEN [sets EXCEPT !.failed = TRUE]
             ELSE [sets EXCEPT !.sorted_open = Insort(RemoveAt(@, i), pn),
                               !.opened = (pn.point :> pn) @@ DelKey(@, existing.point)]
    ELSE [sets EXCEPT !.sorted_open = Insort(@, pn),
                      !.opened = (pn.point :> pn) @@ @]

RECURSIVE OpenEach(_, _)
\* open() for every record of a set; the records are of different points, so the
\* order of the calls does not show in the sets
OpenEach(sets, pns) ==
    IF pns = {} THEN sets
    ELSE LET pn == CHOOSE x \in pns : TRUE
         IN  OpenEach(Open(sets, pn), pns \ {pn})

(***************************************************************************)
(* graph.py: Graph.find_path.                                              *)
(***************************************************************************)

\* lines 280-306: the open and closed sets before the main loop
SeedSets(polys, obs, ns, start_point, end_point, current) ==
    IF start_point \in DOMAIN ns /\ ~Concave(ns[start_point])
    THEN OpenEach([NewAStarSets EXCEPT !.closed = {start_point}],
                  {PathfindingNode(q, ConnectionsMap(ns, start_point)[q], Dist(q, end_point),
                                   << current >>) :
                       q \in DOMAIN ConnectionsMap(ns, start_point)})
    ELSE OpenEach(NewAStarSets,
                  {PathfindingNode(q, Dist(start_point, q), Dist(q, end_point), << current >>) :
                       q \in {p \in DOMAIN ns :
                                 /\ DOMAIN ConnectionsMap(ns, p) # {}
                                 /\ ~GraphRaycast(polys, obs, start_point, p, NoPolygon).blocked}})

RECURSIVE AStarLoop(_, _, _, _, _, _)
\* lines 310-336: the main loop; gives [complete, current, failed]
AStarLoop(polys, obs, ns, end_point, sets, current) ==
    IF sets.failed THEN [complete |-> FALSE, current |-> current, failed |-> TRUE]
    ELSE IF DOMAIN sets.opened = {}
    THEN [complete |-> FALSE, current |-> current, failed |-> FALSE]
    ELSE LET cur == TakeBestNode(sets)
             sets1 == TakeBest(sets)
         IN  IF cur.point = end_point
             THEN [complete |-> TRUE, current |-> cur, failed |-> FALSE]
             ELSE IF /\ end_point \notin DOMAIN ns
                     /\ ~GraphRaycast(polys, obs, cur.point, end_point, NoPolygon).blocked
             THEN [complete |-> TRUE, current |-> cur, failed |-> FALSE]
             ELSE AStarLoop(polys, obs, ns, end_point,
                            OpenEach(sets1,
                                     {PathfindingNode(q,
                                                      cur.g + ConnectionsMap(ns, cur.point)[q],
                                                      Dist(q, end_point), << cur >>) :
                                          q \in (DOMAIN ConnectionsMap(ns, cur.point))
                                                    \ sets1.closed}),
                            cur)

RECURSIVE PreviousPoints(_)
\* lines 347-349: the points appended while following previous, current first
PreviousPoints(prev) ==
    IF prev = << >> THEN << >>
    ELSE << prev[1].point >> \o PreviousPoints(prev[1].previous)

Reverse(seq) == [j \in 1 .. Len(seq) |-> seq[Len(seq) + 1 - j]]

\* lines 342-351: rebuild the path
RebuildPath(end_point, current) ==
    Reverse(<< end_point >> \o
            PreviousPoints(IF current.point = end_point THEN current.previous
                           ELSE << current >>))

\* Graph.find_path(start_point, end_point): [path, raised]
FindPathOf(polys, obs, ns, start_point, end_point) ==
    IF ~GraphRaycast(polys, obs, start_point, end_point, NoPolygon).blocked
    THEN [path |-> << start_point, end_point >>, raised |-> ""]
    ELSE LET Finished(r) ==
                 IF r.failed THEN [path |-> None, raised |-> "AssertionError"]
                 ELSE IF ~r.complete THEN [path |-> None, raised |-> ""]
                 ELSE [path |-> RebuildPath(end_point, r.current), raised |-> ""]
             Search(current) ==
                 Finished(AStarLoop(polys, obs, ns, end_point,
                                    SeedSets(polys, obs, ns, start_point, end_point, current),
                                    current))
         IN  Search(PathfindingNode(start_point, 0, Dist(start_point, end_point), << >>))

\* graph.find_path(start_point, end_point).  The call changes call and result only,
\* so what follows a find_path is what follows the state before it: the behaviours
\* take their next call from there, and a state after find_path has no successor.
FindPath ==
    \E start_point \in Points, end_point \in Points :
        LET Answered(r) ==
                /\ call' = Call("find_path", NoPolygon, start_point, end_point, r.raised)
                /\ result' = r.path
        IN  /\ call.op # "find_path"
            /\ Answered(FindPathOf(polygons, obstacles, nodes, start_point, end_point))
            /\ UNCHANGED << polygons, obstacles, nodes, lock, adding, astar_sets, search >>

Next == AddRectangle \/ AddPolygon \/ AddObstacleAgain \/ FindPath

Spec == Init /\ [][Next]_vars

(***************************************************************************)
(* Vocabulary of the properties.                                           *)
(***************************************************************************)
NodePoints == DOMAIN nodes

\* the last call was find_path and it returned
Returned == call.op = "find_path" /\ call.raised = ""

\* the graph raycast over all inserted obstacles, as find_path and the users call it
Blocked(p, q) == GraphRaycast(polygons, obstacles, p, q, NoPolygon).blocked

\* p is a convex vertex of o: the cross product of its inbound and outbound edges is > 0
IsConvexVertexOf(o, p) ==
    \E i \in 1 .. Len(o.verts) :
        /\ o.verts[i] = p
        /\ CrossProduct(VecSubtract(p, o.verts[IF i = 1 THEN Len(o.verts) ELSE i - 1]),
                        VecSubtract(o.verts[(i % Len(o.verts)) + 1], p)) > 0

(***************************************************************************)
(* C5.  After every add_obstacle, for every connection a-b the graph       *)
(* raycast from a to b over all obstacles of the graph is not blocked.     *)
(***************************************************************************)
C5_ConnectionsNotBlocked ==
    \A a \in NodePoints : \A b \in ConnectionsAll(nodes[a]) : ~Blocked(a, b)

(***************************************************************************)
(* C6.  After every add_obstacle, for every connection a-b and every       *)
(* obstacle O registered as a convex touch of a, the direction b - a is    *)
(* not too narrow at a's vertex of O (and the same for b, a being any end  *)
(* of the connection).                                                     *)
(***************************************************************************)
C6_ConnectionsNotTooNarrow ==
    \A a \in NodePoints : \A b \in ConnectionsAll(nodes[a]) : \A o \in nodes[a].convex :
        ~VertexVectorDirectionTooNarrow(polygons[o], a, b[1] - a[1], b[2] - a[2])

C8_ConcaveIsolated ==
    \A n \in NodePoints :
        Concave(nodes[n]) =>
            /\ ConnectionsAll(nodes[n]) = {}
            /\ \A m \in NodePoints : n \notin ConnectionsAll(nodes[m])

\* C8's case: a convex vertex of the first obstacle, a linked node until then, has
\* become concave under the second obstacle, and other nodes are still linked
C8_Witness ==
    /\ obstacles = {1, 2}
    /\ \E n \in NodePoints :
           /\ 1 \in nodes[n].convex
           /\ 2 \in nodes[n].all \ nodes[n].convex
           /\ Concave(nodes[n])
    /\ \E m \in NodePoints : ConnectionsAll(nodes[m]) # {}

(***************************************************************************)
(* C9.  After every add_obstacle, the node table has a node at every       *)
(* convex vertex of every obstacle of the graph.                           *)
(***************************************************************************)
C9_ConvexCoverage ==
    \A o \in obstacles : \A p \in Points :
        IsConvexVertexOf(polygons[o], p) => p \in NodePoints

\* C9's case: an inserted obstacle with a reflex vertex, which got no node, next to
\* its convex vertices, which did
C9_Witness ==
    \E o \in obstacles : \E p \in Points :
        /\ InVertexMap(polygons[o], p)
        /\ ~IsConvexVertexOf(polygons[o], p)
        /\ p \notin NodePoints
        /\ \E q \in NodePoints : IsConvexVertexOf(polygons[o], q)

(***************************************************************************)
(* C10.  After every add_obstacle, for every node: its convex-touch set is *)
(* the set of inserted obstacles with a convex vertex there; its           *)
(* concave_count is the number of inserted obstacles that include the      *)
(* point and are not in the convex-touch set; and no obstacle is both a    *)
(* convex and a concave touch (the touches are counted once each).  The    *)
(* count is stated for graphs whose obstacles all define includes_point.   *)
(***************************************************************************)
C10_TouchesExact ==
    \A n \in NodePoints :
        /\ nodes[n].convex = {o \in obstacles : IsConvexVertexOf(polygons[o], n)}
        /\ nodes[n].convex \subseteq nodes[n].all
        /\ Cardinality(nodes[n].all \ nodes[n].convex) = nodes[n].concave_count
        /\ (\A o \in obstacles : polygons[o].rect) =>
               nodes[n].concave_count =
                   Cardinality({o \in obstacles : /\ IncludesPoint(polygons[o], n)
                                                  /\ o \notin nodes[n].convex})

(***************************************************************************)
(* The benchmark of C1: polylines that avoid the obstacles.                *)
(***************************************************************************)
\* the values of t where lo < x0 + t * dx < hi, as an open interval of fractions
OpenSpan(x0, dx, lo, hi) ==
    IF dx = 0 THEN (IF lo < x0 /\ x0 < hi THEN << Frac(-1, 1), Frac(2, 1) >> ELSE << FOne, FZero >>)
    ELSE IF dx > 0 THEN << Frac(lo - x0, dx), Frac(hi - x0, dx) >>
    ELSE << Frac(hi - x0, dx), Frac(lo - x0, dx) >>

\* the closed segment p-q has a point in the open interior of the rectangle o
ThroughInterior(o, p, q) ==
    LET sx == OpenSpan(p[1], q[1] - p[1], RectLeft(o), RectRight(o))
        sy == OpenSpan(p[2], q[2] - p[2], RectBottom(o), RectTop(o))
        lo == FMax(FMax(sx[1], sy[1]), FZero)
        hi == FMin(FMin(sx[2], sy[2]), FOne)
    IN  FLess(lo, hi)

\* a leg every reading of "obstacle-avoiding" accepts: it stays out of every
\* interior and the graph raycast lets it pass in both directions
AvoidingLeg(u, v) ==
    /\ u # v
    /\ \A o \in obstacles : ~ThroughInterior(polygons[o], u, v)
    /\ ~Blocked(u, v)
    /\ ~Blocked(v, u)

\* the allowed intermediate vertices: non-concave nodes at convex obstacle vertices
Waypoints ==
    {n \in NodePoints : /\ ~Concave(nodes[n])
                        /\ \E o \in obstacles : IsConvexVertexOf(polygons[o], n)}

Unreached == ((GridMaxX + 1) * (GridMaxY + 1) + 2) * (GridMaxX + GridMaxY + 1) * Scale

SetMin(S) == CHOOSE x \in S : \A y \in S : x <= y

\* the length recorded for v in a set d of << vertex, length >> pairs
LengthAt(d, v) == (CHOOSE vl \in d : vl[1] = v)[2]

RECURSIVE Relax(_, _, _, _)
\* k rounds of relaxation of the lengths d over the legs E
Relax(V, E, d, k) ==
    IF k = 0 THEN d
    ELSE Relax(V, E,
               {<< v, SetMin({LengthAt(d, v)} \union
                             {ul[2] + Dist(ul[1], v) :
                                  ul \in {wl \in d : << wl[1], v >> \in E /\ wl[2] < Unreached}}) >> :
                    v \in V},
               k - 1)

\* the length of a shortest avoiding polyline from s to e through Waypoints
ShortestAvoiding(s, e) ==
    LET V == Waypoints \union {s, e}
        E == {uv \in {<< u, v >> : u \in V, v \in V} : AvoidingLeg(uv[1], uv[2])}
        d == {<< v, IF v = s THEN 0 ELSE Unreached >> : v \in V}
    IN  LengthAt(Relax(V, E, d, Cardinality(V)), e)

RECURSIVE PathLength(_)
PathLength(path) ==
    IF Len(path) < 2 THEN 0
    ELSE Dist(path[1], path[2]) + PathLength(Tail(path))

\* lengths are floors of multiples of 1 / Scale: one unit of slack per leg
\* keeps a comparison of two sums on the side of the exact lengths
Slack == (GridMaxX + 1) * (GridMaxY + 1) + 2

(***************************************************************************)
(* C1.  A non-null result of find_path(s, e) is as short as the shortest   *)
(* obstacle-avoiding polyline from s to e whose intermediate vertices are  *)
(* convex obstacle vertices, also when s or e is a node.  Stated for       *)
(* graphs of rectangles, where the interior of every obstacle is known.    *)
(***************************************************************************)
C1_ShortestPath ==
    (/\ Returned
     /\ result # None
     /\ \A o \in obstacles : polygons[o].rect) =>
        PathLength(result) <= ShortestAvoiding(call.start_point, call.end_point) + Slack

(***************************************************************************)
(* C2.  In a non-null result of find_path every intermediate waypoint is a *)
(* non-concave node of the graph, and the graph raycast between every two  *)
(* consecutive elements is not blocked.                                    *)
(***************************************************************************)
C2_PathLegsVisible ==
    (Returned /\ result # None) =>
        /\ \A i \in 2 .. (Len(result) - 1) :
               /\ result[i] \in NodePoints
               /\ ~Concave(nodes[result[i]])
               /\ \E o \in obstacles : IsConvexVertexOf(polygons[o], result[i])
        /\ \A i \in 1 .. (Len(result) - 1) : ~Blocked(result[i], result[i + 1])

(***************************************************************************)
(* C3.  find_path(s, e) returns exactly [s, e] if and only if the graph    *)
(* raycast from s to e is not blocked.                                     *)
(***************************************************************************)
C3_DirectIffVisible ==
    Returned =>
        ((result = << call.start_point, call.end_point >>)
            <=> ~Blocked(call.start_point, call.end_point))

(***************************************************************************)
(* C4.  Every non-null list returned by find_path(s, e) begins with s,     *)
(* ends with e and has no two equal adjacent elements, for all s and e,    *)
(* s = e included.                                                         *)
(***************************************************************************)
C4_PathEndsNoDuplicates ==
    (Returned /\ result # None) =>
        /\ result[1] = call.start_point
        /\ result[Len(result)] = call.end_point
        /\ \A i \in 1 .. (Len(result) - 1) : result[i] # result[i + 1]

(***************************************************************************)
(* graph.py: Graph.__init__(obstacles) inserts the obstacles in the order  *)
(* given.  GraphOf(polys, order) is Graph([polys[order[1]], ...]): it      *)
(* gives [nodes, obstacles, raised] after the insertions, stopping at the  *)
(* first that raises.                                                      *)
(***************************************************************************)
RECURSIVE GraphFrom(_, _, _, _)
GraphFrom(polys, order, g, k) ==
    IF k > Len(order) \/ g.raised THEN g
    ELSE LET Inserted(r) ==
                 GraphFrom(polys, order,
                           [nodes |-> r.nodes,
                            obstacles |-> IF r.raised THEN g.obstacles
                                          ELSE g.obstacles \union {order[k]},
                            raised |-> r.raised],
                           k + 1)
         IN  Inserted(AddObstacleLocked(polys, g.obstacles, g.nodes, order[k]))

GraphOf(polys, order) ==
    GraphFrom(polys, order, [nodes |-> << >>, obstacles |-> {}, raised |-> FALSE], 1)

\* the connections of a node table, as a set of unordered pairs of coordinates
EdgeSet(ns) == {e \in {{a, b} : a \in DOMAIN ns, b \in DOMAIN ns} :
                   \E a \in e : \E b \in e : b \in ConnectionsAll(ns[a])}

(***************************************************************************)
(* C11.  The connection set after inserting a set of obstacles is the same *)
(* for every insertion order: for two obstacles inserted one after the     *)
(* other, it is the connection set of the graph that gets them in the      *)
(* other order.                                                            *)
(***************************************************************************)
C11_OrderIndependent ==
    (/\ Len(polygons) = 2
     /\ obstacles = {1, 2}
     /\ ~GraphOf(polygons, << 2, 1 >>).raised) =>
        EdgeSet(nodes) = EdgeSet(GraphOf(polygons, << 2, 1 >>).nodes)

(***************************************************************************)
(* graph.py: raycast walks self._obstacles, a Python set of objects hashed *)
(* by address, so the order of the walk is not fixed by the program.       *)
(* GraphRaycastOrdered is raycast with the walk in the order given.        *)
(***************************************************************************)
RECURSIVE GraphRaycastWalk(_, _, _, _, _, _, _)
GraphRaycastWalk(polys, order, origin, direction, prio, res, k) ==
    IF k > Len(order) THEN res
    ELSE IF order[k] = prio
         THEN GraphRaycastWalk(polys, order, origin, direction, prio, res, k + 1)
    ELSE LET Updated(r2) ==
                 IF r2.blocked THEN r2
                 ELSE GraphRaycastWalk(polys, order, origin, direction, prio, r2, k + 1)
         IN  Updated(PolygonRaycast(polys[order[k]], origin, direction, res))

\* raycast that gives the walk a new result instead of the prioritised obstacle's
GraphRaycastForgetsFirst(polys, order, p0, p1, prio) ==
    LET direction == VecSubtract(p1, p0)
        Others(first) ==
            IF first.blocked THEN first
            ELSE GraphRaycastWalk(polys, order, p0, direction, prio, NewRaycastResult, 1)
    IN  Others(IF prio # NoPolygon
               THEN PolygonRaycast(polys[prio], p0, direction, NewRaycastResult)
               ELSE NewRaycastResult)

GraphRaycastOrdered(polys, order, p0, p1, prio) ==
    LET direction == VecSubtract(p1, p0)
        Others(first) ==
            IF first.blocked THEN first
            ELSE GraphRaycastWalk(polys, order, p0, direction, prio, first, 1)
    IN  Others(IF prio # NoPolygon
               THEN PolygonRaycast(polys[prio], p0, direction, NewRaycastResult)
               ELSE NewRaycastResult)

\* the iteration orders a set of obstacles can have
IterationOrders(obs) ==
    {order \in [1 .. Cardinality(obs) -> obs] :
        \A i, j \in 1 .. Cardinality(obs) : order[i] = order[j] => i = j}

Verdict(r) == IF r.blocked THEN "blocked" ELSE IF Grazed(r) THEN "grazed" ELSE "free"

(***************************************************************************)
(* C12.  For the obstacles of the graph and any ray, raycast gives the     *)
(* same verdict (blocked, grazed or free) whatever the order in which the  *)
(* obstacles are walked and whichever obstacle, if any, is prioritised.    *)
(***************************************************************************)
C12_RaycastOrderIndependent ==
    \A p0 \in Points, p1 \in Points :
        LET Same(verdict) ==
                \A order \in IterationOrders(obstacles), prio \in obstacles \union {NoPolygon} :
                    Verdict(GraphRaycastOrdered(polygons, order, p0, p1, prio)) = verdict
        IN  Same(Verdict(GraphRaycast(polygons, obstacles, p0, p1, NoPolygon)))

C12_Witness ==
    /\ obstacles = {1, 2}
    /\ \E p0 \in Points, p1 \in Points :
          /\ Grazed(GraphRaycastOrdered(polygons, <<2, 1>>, p0, p1, NoPolygon))
          /\ Len(GraphRaycastOrdered(polygons, <<2, 1>>, p0, p1, NoPolygon).segments) > 1
    /\ \E p0 \in Points, p1 \in Points :
          /\ ~PolygonRaycast(polygons[1], p0, VecSubtract(p1, p0), NewRaycastResult).blocked
          /\ ~PolygonRaycast(polygons[2], p0, VecSubtract(p1, p0), NewRaycastResult).blocked
          /\ GraphRaycastOrdered(polygons, <<1, 2>>, p0, p1, 2).blocked

(***************************************************************************)
(* graph.py: add_obstacle called from several threads.  add_obstacle takes *)
(* self._lock around _add_obstacle_locked; find_path and raycast take no   *)
(* lock.  The interpreter can switch threads between any two bytecodes, so *)
(* a thread in add_obstacle can be suspended between the phases of the     *)
(* insertion.  The steps below are the phases; find_path is taken as one   *)
(* step, which leaves out the interleavings inside a query.                *)
(*   adding[t].pc   "idle", "acquire" (at the with statement), "A", "B",   *)
(*                  "C", "D" (before that phase), "release"                *)
(***************************************************************************)
ThreadRectangles == {Rectangle(0, 0, 1, 2), Rectangle(1, 1, 2, 3), Rectangle(0, 2, 2, 3)}

ThreadAt(t, pc) == adding[t].pc = pc

ThreadGoto(t, pc) == adding' = [adding EXCEPT ![t].pc = pc]

\* a thread constructs a rectangle and calls graph.add_obstacle with it
ThreadCall ==
    \E t \in Threads, o \in ThreadRectangles :
        /\ ThreadAt(t, "idle")
        /\ call.op # "find_path"
        /\ Len(polygons) < MaxPolygons
        /\ polygons' = Append(polygons, o)
        /\ adding' = [adding EXCEPT ![t] = [pc |-> "acquire", obstacle |-> Len(polygons'),
                                            created_convex_nodes |-> {}]]
        /\ UNCHANGED << obstacles, nodes, call, result, lock, astar_sets, search >>

\* line 261: with self._lock
ThreadAcquire ==
    \E t \in Threads :
        /\ ThreadAt(t, "acquire")
        /\ call.op # "find_path"
        /\ lock = NoThread
        /\ lock' = t
        /\ ThreadGoto(t, "A")
        /\ UNCHANGED << polygons, obstacles, nodes, call, result, astar_sets, search >>

\* lines 101-125: the assertion and the loop over the vertices of the obstacle
ThreadPhaseA ==
    \E t \in Threads :
        LET Looped(st) ==
                /\ nodes' = st.nodes
                /\ adding' = [adding EXCEPT ![t].pc = IF st.raised THEN "release" ELSE "B",
                                            ![t].created_convex_nodes = st.created_convex_nodes]
        IN  /\ ThreadAt(t, "A")
            /\ call.op # "find_path"
            /\ IF adding[t].obstacle \in obstacles
               THEN ThreadGoto(t, "release") /\ UNCHANGED nodes
               ELSE Looped(ConvexVertexLoop(polygons, obstacles, adding[t].obstacle,
                                            [nodes |-> nodes, created_convex_nodes |-> {},
                                             raised |-> FALSE], 1))
            /\ UNCHANGED << polygons, obstacles, call, result, lock, astar_sets, search >>

\* lines 127-141: the sweep over the nodes the obstacle includes
ThreadPhaseB ==
    \E t \in Threads :
        /\ ThreadAt(t, "B")
        /\ call.op # "find_path"
        /\ IF TouchSweepRaises(polygons, nodes, adding[t].obstacle)
           THEN ThreadGoto(t, "release") /\ UNCHANGED nodes
           ELSE /\ nodes' = TouchSweep(polygons, nodes, adding[t].obstacle)
                /\ ThreadGoto(t, "C")
        /\ UNCHANGED << polygons, obstacles, call, result, lock, astar_sets, search >>

\* lines 143-168: sever the connections the obstacle blocks
ThreadPhaseC ==
    \E t \in Threads :
        /\ ThreadAt(t, "C")
        /\ call.op # "find_path"
        /\ nodes' = SeverBlocked(polygons, obstacles, nodes, adding[t].obstacle)
        /\ ThreadGoto(t, "D")
        /\ UNCHANGED << polygons, obstacles, call, result, lock, astar_sets, search >>

\* lines 170-217: link the created nodes and store the obstacle
ThreadPhaseD ==
    \E t \in Threads :
        /\ ThreadAt(t, "D")
        /\ call.op # "find_path"
        /\ nodes' = LinkCreated(polygons, obstacles, nodes, adding[t].obstacle,
                                adding[t].created_convex_nodes)
        /\ obstacles' = obstacles \union {adding[t].obstacle}
        /\ ThreadGoto(t, "release")
        /\ UNCHANGED << polygons, call, result, lock, astar_sets, search >>

\* line 261: the with statement releases the lock, whether or not the body raised
ThreadRelease ==
    \E t \in Threads :
        /\ ThreadAt(t, "release")
        /\ call.op # "find_path"
        /\ lock' = NoThread
        /\ adding' = [adding EXCEPT ![t] = Idle]
        /\ UNCHANGED << polygons, obstacles, nodes, call, result, astar_sets, search >>

NextThreads ==
    \/ ThreadCall
    \/ ThreadAcquire
    \/ ThreadPhaseA
    \/ ThreadPhaseB
    \/ ThreadPhaseC
    \/ ThreadPhaseD
    \/ ThreadRelease
    \/ FindPath

SpecThreads == Init /\ [][NextThreads]_vars

\* the obstacles whose insertion has begun and has not ended
InProgress == {adding[t].obstacle : t \in {u \in Threads : adding[u].pc \in {"B", "C", "D"}}}

\* the graphs the calls made so far give when no two of them overlap: the stored
\* obstacles inserted one after the other, with or without the one in progress
SequentialGraphs ==
    {GraphOf(polygons, order) : order \in IterationOrders(obstacles)}
        \union {GraphOf(polygons, Append(order, o)) :
                    order \in IterationOrders(obstacles), o \in InProgress}

(***************************************************************************)
(* C13.  add_obstacle holds the lock of the graph for the whole insertion, *)
(* and no query in another thread observes a partially applied insertion:  *)
(* what find_path answers is what it answers on the graph without the      *)
(* insertion in progress or on the graph with it.                          *)
(***************************************************************************)
C13_NoPartialObservation ==
    /\ \A t \in Threads : adding[t].pc \in {"A", "B", "C", "D", "release"} => lock = t
    /\ call.op = "find_path" =>
          \E g \in SequentialGraphs :
              FindPathOf(polygons, g.obstacles, g.nodes, call.start_point, call.end_point)
                  = [path |-> result, raised |-> call.raised]

\* the step is a call add_obstacle(o), as the call left behind tells
AddObstacleStep(o) == call'.op = "add_obstacle" /\ call'.obstacle = o

\* the object o is congruent to an object of the obstacle set
CongruentToObstacle(polys, o) == \E other \in obstacles : other # o /\ polys[other] = polys[o]

(***************************************************************************)
(* C14.  add_obstacle with an object that is in the obstacle set fails its *)
(* assertion and changes neither the node table (touches and connections   *)
(* with it) nor the obstacle set; an object that is not in the set but is  *)
(* congruent to one in it is not a duplicate: the assertion lets it pass,  *)
(* and it is stored when the call returns.                                 *)
(***************************************************************************)
C14_DuplicateByIdentity ==
    [][\A o \in 1 .. Len(polygons') :
          AddObstacleStep(o) =>
              /\ o \in obstacles =>
                    call'.raised = "AssertionError" /\ UNCHANGED << nodes, obstacles >>
              /\ (o \notin obstacles /\ CongruentToObstacle(polygons', o)) =>
                    /\ call'.raised # "AssertionError"
                    /\ call'.raised = "" => obstacles' = obstacles \union {o}]_vars

C14_Witness ==
    /\ obstacles = {1, 2}
    /\ polygons[1] = polygons[2]
    /\ call.op = "add_obstacle"
    /\ call.raised = "AssertionError"

(***************************************************************************)
(* graph.py: Graph.find_path step by step, one step for each iteration of  *)
(* the loop of line 310, on a graph that add_obstacle has built.           *)
(*   search.pc   "idle", "loop" (at the test of the while), "rebuild"      *)
(*               (after a break), "done"                                   *)
(***************************************************************************)
MaxIterations == 12

SearchPolygons == Rectangles \union Polygons

SearchPolygonLists ==
    {<< >>} \union {<< a >> : a \in SearchPolygons}
            \union {<< a, b >> : a \in SearchPolygons, b \in SearchPolygons}

InitSearch ==
    \E polys \in SearchPolygonLists :
        LET Built(g) ==
                /\ polygons = polys
                /\ obstacles = g.obstacles
                /\ nodes = g.nodes
        IN  /\ Built(GraphOf(polys, [k \in 1 .. Len(polys) |-> k]))
            /\ call = Call("init", NoPolygon, NoPoint, NoPoint, "")
            /\ result = None
            /\ lock = NoThread
            /\ adding = [t \in Threads |-> Idle]
            /\ astar_sets = << >>
            /\ search = NoSearch

\* lines 269-306: the direct answer, or the open and closed sets before the loop
SearchBegin ==
    \E start_point \in Points, end_point \in Points :
        LET Seeded(current) ==
                /\ astar_sets' = SeedSets(polygons, obstacles, nodes, start_point, end_point,
                                          current)
                /\ search' = [pc |-> "loop", current |-> << current >>, complete |-> FALSE,
                              iterations |-> 0]
                /\ result' = None
        IN  /\ search.pc = "idle"
            /\ call' = Call("find_path", NoPolygon, start_point, end_point, "")
            /\ IF ~GraphRaycast(polygons, obstacles, start_point, end_point, NoPolygon).blocked
               THEN /\ result' = << start_point, end_point >>
                    /\ search' = [NoSearch EXCEPT !.pc = "done"]
                    /\ UNCHANGED astar_sets
               ELSE Seeded(PathfindingNode(start_point, 0, Dist(start_point, end_point), << >>))
            /\ UNCHANGED << polygons, obstacles, nodes, lock, adding >>

\* the records of line 327 without the test of line 324 for closed points
NeighboursClosedToo(ns, sets, cur, end_point) ==
    {PathfindingNode(q, cur.g + ConnectionsMap(ns, cur.point)[q], Dist(q, end_point),
                     << cur >>) :
         q \in DOMAIN ConnectionsMap(ns, cur.point)}

\* the records line 327 opens after current was taken: its connections that are not closed
Neighbours(ns, sets, cur, end_point) ==
    {PathfindingNode(q, cur.g + ConnectionsMap(ns, cur.point)[q], Dist(q, end_point),
                     << cur >>) :
         q \in (DOMAIN ConnectionsMap(ns, cur.point)) \ sets.closed}

\* lines 310-336: one iteration of the loop
SearchStep ==
    LET Taken(cur, sets1) ==
            IF \/ cur.point = call.end_point
               \/ /\ call.end_point \notin DOMAIN nodes
                  /\ ~GraphRaycast(polygons, obstacles, cur.point, call.end_point,
                                   NoPolygon).blocked
            THEN /\ astar_sets' = sets1
                 /\ search' = [pc |-> "rebuild", current |-> << cur >>, complete |-> TRUE,
                               iterations |-> search.iterations + 1]
            ELSE /\ astar_sets' = OpenEach(sets1, Neighbours(nodes, sets1, cur, call.end_point))
                 /\ search' = [search EXCEPT !.current = << cur >>, !.iterations = @ + 1]
    IN  /\ search.pc = "loop"
        /\ DOMAIN astar_sets.opened # {}
        /\ ~astar_sets.failed
        /\ search.iterations < MaxIterations
        /\ Taken(TakeBestNode(astar_sets), TakeBest(astar_sets))
        /\ UNCHANGED << polygons, obstacles, nodes, call, result, lock, adding >>

\* lines 338-351: return None or the rebuilt path; an assertion that failed in
\* AStarSets.open leaves find_path as AssertionError
SearchReturn ==
    /\ \/ search.pc = "rebuild"
       \/ search.pc = "loop" /\ (DOMAIN astar_sets.opened = {} \/ astar_sets.failed)
    /\ result' = IF astar_sets.failed \/ ~search.complete THEN None
                 ELSE RebuildPath(call.end_point, search.current[1])
    /\ call' = [call EXCEPT !.raised = IF astar_sets.failed THEN "AssertionError" ELSE ""]
    /\ search' = [search EXCEPT !.pc = "done"]
    /\ UNCHANGED << polygons, obstacles, nodes, lock, adding, astar_sets >>

NextSearch == SearchBegin \/ SearchStep \/ SearchReturn

SpecSearch == InitSearch /\ [][NextSearch]_vars

\* the guard of SearchStep: the step is enabled exactly when it holds, the rest of
\* the action being assignments, and a step always changes search.iterations
SearchStepEnabled ==
    /\ search.pc = "loop"
    /\ DOMAIN astar_sets.opened # {}
    /\ ~astar_sets.failed
    /\ search.iterations < MaxIterations

\* a thread that runs find_path keeps running it: the loop has no blocking call.
\* The second conjunct is WF_vars(SearchStep) with ENABLED written as its guard.
SpecSearchFair ==
    /\ SpecSearch
    /\ WF_vars(SearchReturn)
    /\ ([]<>~SearchStepEnabled \/ []<><<SearchStep>>_vars)

\* find_path is inside its loop or just left it
Searching == search.pc \in {"loop", "rebuild"}

\* the step takes a record from the open list
Pops == search'.iterations = search.iterations + 1

(***************************************************************************)
(* C15.  find_path terminates.  A point is never open and closed at once;  *)
(* the point a loop iteration takes was not closed before and stays closed *)
(* (so no point is taken twice and no closed point is opened again); the   *)
(* loop runs at most as many iterations as the graph has nodes; find_path  *)
(* ends without an error, with None when the open list runs empty before   *)
(* the end point is reached or seen; and a find_path in its loop ends.     *)
(***************************************************************************)
C15_FindPathTerminates ==
    /\ [](Searching =>
            /\ (DOMAIN astar_sets.opened) \intersect astar_sets.closed = {}
            /\ search.iterations <= Cardinality(DOMAIN nodes))
    /\ [][Pops =>
            /\ TakeBestNode(astar_sets).point \notin astar_sets.closed
            /\ TakeBestNode(astar_sets).point \in astar_sets'.closed
            /\ astar_sets.closed \subseteq astar_sets'.closed]_vars
    /\ [](search.pc = "done" =>
            /\ call.raised = ""
            /\ (~search.complete /\ search.iterations > 0) => result = None)
    /\ (search.pc = "loop") ~> (search.pc = "done")

C15_Witness ==
    /\ search.pc = "done"
    /\ search.iterations >= 3
    /\ ~search.complete
    /\ DOMAIN astar_sets.opened = {}
    /\ result = None

(***************************************************************************)
(* C16.  The node table holds one node for a coordinate pair; across calls *)
(* of add_obstacle a node is never removed and never replaced by a new one *)
(* (it keeps the obstacles registered at it, convex ones as convex), and   *)
(* the obstacle set only grows.                                            *)
(***************************************************************************)
C16_NodesAndObstaclesPersist ==
    [][/\ DOMAIN nodes \subseteq DOMAIN nodes'
       /\ \A p \in DOMAIN nodes :
             /\ nodes[p].all \subseteq nodes'[p].all
             /\ nodes[p].convex \subseteq nodes'[p].convex
       /\ obstacles \subseteq obstacles']_vars

C16_Witness ==
    /\ obstacles = {1, 2}
    /\ \E p \in DOMAIN nodes : nodes[p].convex = {1, 2}
    /\ \E p \in DOMAIN nodes : nodes[p].all = {1, 2} /\ nodes[p].convex = {1}

(***************************************************************************)
(* shapes.py: Polygon(vertices) for any vertex list, well formed or not,   *)
(* and add_obstacle of the objects constructed.  Polygon.__init__ bakes    *)
(* the vertices, builds vertex_map and the bounding box (AABB.from_points  *)
(* answers an empty list with a unit box); no statement of it raises.      *)
(***************************************************************************)
MaxRing == 3

RingPoints == {<< 0, 0 >>, << 1, 0 >>, << 1, 1 >>, << 0, 1 >>}

\* the vertex lists of up to MaxRing different points
VertexRings ==
    UNION {{ring \in [1 .. n -> RingPoints] : \A i, j \in 1 .. n : ring[i] = ring[j] => i = j} :
              n \in 0 .. MaxRing}

\* does Polygon.__init__ raise for this vertex list?
PolygonInitRaises(counter_clockwise_vertices) == FALSE

\* Polygon(ring)
ConstructPolygon ==
    \E ring \in VertexRings :
        /\ Len(polygons) < MaxPolygons
        /\ IF PolygonInitRaises(ring)
           THEN /\ call' = Call("Polygon", NoPolygon, NoPoint, NoPoint, "ValueError")
                /\ UNCHANGED polygons
           ELSE /\ polygons' = Append(polygons, Polygon(ring))
                /\ call' = Call("Polygon", Len(polygons'), NoPoint, NoPoint, "")
        /\ UNCHANGED << obstacles, nodes, result, lock, adding, astar_sets, search >>

NextConstruct == ConstructPolygon \/ AddObstacleAgain

SpecConstruct == Init /\ [][NextConstruct]_vars

RECURSIVE TwiceArea(_, _)
\* twice the signed area of the ring from edge i on (positive for counter-clockwise)
TwiceArea(ring, i) ==
    IF i > Len(ring) THEN 0
    ELSE CrossProduct(ring[i], ring[(i % Len(ring)) + 1]) + TwiceArea(ring, i + 1)

\* at least three vertices in counter-clockwise order
WellFormed(ring) == Len(ring) >= 3 /\ TwiceArea(ring, 1) > 0

(***************************************************************************)
(* C17.  Constructing a polygon from fewer than three vertices or from     *)
(* vertices that are not in counter-clockwise order is a hard failure: no  *)
(* Polygon object comes of it, and so none is ever an obstacle.            *)
(***************************************************************************)
C17_MalformedPolygonRejected ==
    /\ \A o \in 1 .. Len(polygons) : WellFormed(polygons[o].verts)
    /\ \A o \in obstacles : WellFormed(polygons[o].verts)

(***************************************************************************)
(* C18.  includes_point answers with a boolean for every polygon and every *)
(* point, so add_obstacle works with general polygons: no add_obstacle     *)
(* ends with the NotImplementedError of includes_point, and an obstacle    *)
(* that was not in the graph is stored by the call.                        *)
(***************************************************************************)
C18_IncludesPointTotal ==
    /\ \A o \in 1 .. Len(polygons) : ~IncludesPointRaises(polygons[o])
    /\ call.op = "add_obstacle" =>
          /\ call.raised # "NotImplementedError"
          /\ call.raised = "" => call.obstacle \in obstacles

(***************************************************************************)
(* graph.py: an AStarSets object on its own, under any sequence of open    *)
(* and take_best calls.  In this specification call is the record          *)
(* [op, pn, raised]: the call, the record passed to open (<< >> for        *)
(* take_best) and the exception; result is << record >> after take_best.   *)
(***************************************************************************)
MaxG == 2
MaxH == 1

SetsPoints == {<< 0, 0 >>, << 0, 1 >>, << 1, 0 >>}

PathfindingNodes ==
    {PathfindingNode(point, g, h, << >>) : point \in SetsPoints, g \in 1 .. MaxG, h \in 0 .. MaxH}

SetsCall(op, pn, raised) == [op |-> op, pn |-> pn, raised |-> raised]

InitSets ==
    /\ polygons = << >>
    /\ obstacles = {}
    /\ nodes = << >>
    /\ call = SetsCall("AStarSets", << >>, "")
    /\ result = None
    /\ lock = NoThread
    /\ adding = [t \in Threads |-> Idle]
    /\ astar_sets = NewAStarSets
    /\ search = NoSearch

\* sets.open(pn)
SetsOpen ==
    \E pn \in PathfindingNodes :
        LET Opened(sets1) ==
                /\ astar_sets' = sets1
                /\ call' = SetsCall("open", << pn >>,
                                    IF sets1.failed THEN "AssertionError" ELSE "")
        IN  /\ ~astar_sets.failed
            /\ Opened(Open(astar_sets, pn))
            /\ result' = None
            /\ UNCHANGED << polygons, obstacles, nodes, lock, adding, search >>

\* sets.take_best(); list.pop() of an empty list raises IndexError
SetsTakeBest ==
    /\ ~astar_sets.failed
    /\ IF astar_sets.sorted_open = << >>
       THEN /\ call' = SetsCall("take_best", << >>, "IndexError")
            /\ result' = None
            /\ UNCHANGED astar_sets
       ELSE /\ call' = SetsCall("take_best", << >>, "")
            /\ result' = << TakeBestNode(astar_sets) >>
            /\ astar_sets' = TakeBest(astar_sets)
    /\ UNCHANGED << polygons, obstacles, nodes, lock, adding, search >>

NextSets == SetsOpen \/ SetsTakeBest

SpecSets == InitSets /\ [][NextSets]_vars

\* the records of the map opened
OpenedRecords(sets) == {sets.opened[q] : q \in DOMAIN sets.opened}

\* point order: the order of the tuples (x, y)
PointLess(a, b) == a[1] < b[1] \/ (a[1] = b[1] /\ a[2] < b[2])

\* record r comes before record q: smaller f, then larger g, then larger point
Better(r, q) ==
    \/ F(r) < F(q)
    \/ F(r) = F(q) /\ r.g > q.g
    \/ F(r) = F(q) /\ r.g = q.g /\ PointLess(q.point, r.point)

(***************************************************************************)
(* C19.  take_best returns the open record with the smallest f = g + h;    *)
(* among records of equal f the one with the larger g; among records that  *)
(* still tie the point order decides (the larger point).                   *)
(***************************************************************************)
C19_TakeBestOrder ==
    [][(call'.op = "take_best" /\ call'.raised = "") =>
          /\ result'[1] \in OpenedRecords(astar_sets)
          /\ \A q \in OpenedRecords(astar_sets) \ {result'[1]} : Better(result'[1], q)]_vars

C19_Witness ==
    /\ call.op = "take_best"
    /\ call.raised = ""
    /\ \E q \in OpenedRecords(astar_sets) : F(q) = F(result[1]) /\ q.g < result[1].g
    /\ \E q \in OpenedRecords(astar_sets) :
          F(q) = F(result[1]) /\ q.g = result[1].g /\ PointLess(q.point, result[1].point)

\* the list sorted_open holds the records of the map opened, one for each point
SameRecords(sets) ==
    /\ {sets.sorted_open[i] : i \in 1 .. Len(sets.sorted_open)} = OpenedRecords(sets)
    /\ Len(sets.sorted_open) = Cardinality(DOMAIN sets.opened)
    /\ \A q \in DOMAIN sets.opened : sets.opened[q].point = q

\* the list sorted_open ascends by the sort key
SortedByKey(sets) ==
    \A i, j \in 1 .. Len(sets.sorted_open) :
        i < j => KeyLess(sets.sorted_open[i], sets.sorted_open[j])

(***************************************************************************)
(* C20.  After any sequence of open and take_best calls the map opened and *)
(* the list sorted_open hold the same records, one at most for a point,    *)
(* and the list is sorted by the sort key; open of a point that is open    *)
(* replaces its record when the proposed g is strictly smaller and leaves  *)
(* map and list as they were otherwise; the assertion in open never fails. *)
(***************************************************************************)
C20_OpenSetsConsistent ==
    /\ [](/\ SameRecords(astar_sets)
          /\ SortedByKey(astar_sets)
          /\ ~astar_sets.failed
          /\ call.raised # "AssertionError")
    /\ [][(call'.op = "open" /\ call'.pn[1].point \in DOMAIN astar_sets.opened) =>
             IF call'.pn[1].g < astar_sets.opened[call'.pn[1].point].g
             THEN astar_sets'.opened =
                      [astar_sets.opened EXCEPT ![call'.pn[1].point] = call'.pn[1]]
             ELSE /\ astar_sets'.opened = astar_sets.opened
                  /\ astar_sets'.sorted_open = astar_sets.sorted_open]_vars

C20_Witness ==
    /\ call.op = "open"
    /\ Len(astar_sets.sorted_open) = Cardinality(SetsPoints)
    /\ astar_sets.closed # {}
    /\ astar_sets.opened[call.pn[1].point] = call.pn[1]
    /\ \E i \in 1 .. Len(astar_sets.sorted_open) - 1 :
          /\ astar_sets.sorted_open[i] = call.pn[1]
          /\ F(astar_sets.sorted_open[i + 1]) = F(call.pn[1])

(***************************************************************************)
(* graph.py 280-336: the nodes the search of find_path(s, e) can pop when  *)
(* it never stops early: the seeds, and what the connections reach from    *)
(* them.                                                                   *)
(***************************************************************************)
Seeds(start_point, end_point) ==
    DOMAIN SeedSets(polygons, obstacles, nodes, start_point, end_point,
                    PathfindingNode(start_point, 0, Dist(start_point, end_point), << >>)).opened

RECURSIVE ReachableFrom(_)
ReachableFrom(S) ==
    LET more == S \union UNION {ConnectionsTuple(nodes, p) : p \in S}
    IN  IF more = S THEN S ELSE ReachableFrom(more)

(***************************************************************************)
(* C21.  When the direct ray from s to e is blocked and some node the      *)
(* search reaches from its seeds either is e or sees e (the graph raycast  *)
(* from it to e is not blocked), find_path returns a path, also when e is  *)
(* the place of an existing node, a concave one without connections        *)
(* included.                                                               *)
(***************************************************************************)
C21_FoundWhenVisible ==
    (/\ Returned
     /\ Blocked(call.start_point, call.end_point)
     /\ \E p \in ReachableFrom(Seeds(call.start_point, call.end_point)) :
            p = call.end_point \/ ~Blocked(p, call.end_point)) =>
        result # None

(***************************************************************************)
(* shapes.py: one Polygon object on its own, with raycasts of it.  The     *)
(* vertex rings are the counter-clockwise rings of three or four grid      *)
(* points, rings with a repeated vertex (a zero-length edge) included.  In *)
(* this specification call is the record [op, obstacle, origin, direction] *)
(* and result is the RaycastResult that Polygon.raycast returns.           *)
(***************************************************************************)
ShapeMax == 2

ShapePoints == (0 .. ShapeMax) \X (0 .. ShapeMax)

ShapeRings ==
    {ring \in [1 .. 3 -> ShapePoints] \union [1 .. 4 -> ShapePoints] : TwiceArea(ring, 1) > 0}

ShapeCall(op, obstacle, origin, direction) ==
    [op |-> op, obstacle |-> obstacle, origin |-> origin, direction |-> direction]

InitShapes ==
    /\ polygons = << >>
    /\ obstacles = {}
    /\ nodes = << >>
    /\ call = ShapeCall("init", NoPolygon, NoPoint, NoPoint)
    /\ result = NewRaycastResult
    /\ lock = NoThread
    /\ adding = [t \in Threads |-> Idle]
    /\ astar_sets = << >>
    /\ search = NoSearch

\* Polygon(ring)
ShapeConstruct ==
    \E ring \in ShapeRings :
        /\ polygons = << >>
        /\ polygons' = << Polygon(ring) >>
        /\ call' = ShapeCall("Polygon", 1, NoPoint, NoPoint)
        /\ UNCHANGED << obstacles, nodes, result, lock, adding, astar_sets, search >>

\* polygon.raycast(origin, direction) with a fresh RaycastResult
ShapeRaycast ==
    \E origin \in ShapePoints, target \in ShapePoints :
        /\ call.op = "Polygon"
        /\ call' = ShapeCall("raycast", 1, origin, VecSubtract(target, origin))
        /\ result' = PolygonRaycast(polygons[1], origin, VecSubtract(target, origin),
                                    NewRaycastResult)
        /\ UNCHANGED << polygons, obstacles, nodes, lock, adding, astar_sets, search >>

NextShapes == ShapeConstruct \/ ShapeRaycast

SpecShapes == InitShapes /\ [][NextShapes]_vars

\* the ring positions before and after position i
PrevIndex(o, i) == IF i = 1 THEN Len(o.verts) ELSE i - 1
NextIndex(o, i) == (i % Len(o.verts)) + 1

\* what raycast_segmented yields for the edge that starts at position i
EdgeYield(o, origin, direction, i) ==
    RaycastSegment(origin, direction, o.verts[i], BakeVertex(o, i).vec_to_next_vertex)

\* the point v lies on the ray strictly between its two ends
InsideRay(origin, direction, v) ==
    LET d == VecSubtract(v, origin)
        dot == d[1] * direction[1] + d[2] * direction[2]
    IN  /\ CrossProduct(d, direction) = 0
        /\ 0 < dot
        /\ dot < direction[1] * direction[1] + direction[2] * direction[2]

\* on which side of the ray's line the point p lies: 1, -1, or 0 when on it
SideOfRay(origin, direction, p) ==
    LET c == CrossProduct(direction, VecSubtract(p, origin))
    IN  IF c > 0 THEN 1 ELSE IF c < 0 THEN -1 ELSE 0

\* the ray passes through vertex i in its interior, parallel to neither adjacent edge
ThroughVertex(o, origin, direction, i) ==
    /\ InsideRay(origin, direction, o.verts[i])
    /\ CrossProduct(direction, BakeVertex(o, i).vec_from_prev_vertex) # 0
    /\ CrossProduct(direction, BakeVertex(o, i).vec_to_next_vertex) # 0

\* the two vertices adjacent to vertex i lie strictly on opposite sides of the ray's line
NeighboursOpposite(o, origin, direction, i) ==
    SideOfRay(origin, direction, o.verts[PrevIndex(o, i)])
        * SideOfRay(origin, direction, o.verts[NextIndex(o, i)]) < 0

(***************************************************************************)
(* C22.  When Polygon.raycast is called with a ray whose interior passes   *)
(* through a vertex v and is parallel to neither edge adjacent to v, both  *)
(* adjacent edges yield a graze at v; the two grazes have opposite side    *)
(* tags exactly when the two vertices adjacent to v lie strictly on        *)
(* opposite sides of the ray's line.  Opposite tags block the ray; with    *)
(* equal tags, and no other edge of the polygon touching the ray, the      *)
(* result is not blocked and holds the one merged graze.                   *)
(***************************************************************************)
C22_VertexGraze ==
    call.op = "raycast" =>
        \A i \in 1 .. Len(polygons[1].verts) :
            ThroughVertex(polygons[1], call.origin, call.direction, i) =>
                LET o == polygons[1]
                    into == EdgeYield(o, call.origin, call.direction, PrevIndex(o, i))
                    from == EdgeYield(o, call.origin, call.direction, i)
                    opposite == NeighboursOpposite(o, call.origin, call.direction, i)
                    alone == \A j \in 1 .. Len(o.verts) :
                                 j \notin {i, PrevIndex(o, i)} =>
                                     EdgeYield(o, call.origin, call.direction, j) = SegFalse
                IN  /\ into.kind = "segment" /\ from.kind = "segment"
                    /\ into.start = into.stop /\ from.start = from.stop
                    /\ into.start = from.start
                    /\ (into.side # from.side) <=> opposite
                    /\ opposite => result.blocked
                    /\ (alone /\ ~opposite) =>
                           /\ ~result.blocked
                           /\ result.segments = << Segment(from.start, from.stop, from.side) >>

C22_Witness ==
    /\ call.op = "raycast"
    /\ \E i \in 1 .. Len(polygons[1].verts) :
          /\ ThroughVertex(polygons[1], call.origin, call.direction, i)
          /\ ~NeighboursOpposite(polygons[1], call.origin, call.direction, i)
          /\ Grazed(result)
          /\ \A j \in 1 .. Len(polygons[1].verts) : BakeVertex(polygons[1], j).convex

\* r lies on the closed segment from p to q
OnSegment(p, q, r) ==
    /\ CrossProduct(VecSubtract(q, p), VecSubtract(r, p)) = 0
    /\ (p[1] <= r[1] /\ r[1] <= q[1]) \/ (q[1] <= r[1] /\ r[1] <= p[1])
    /\ (p[2] <= r[2] /\ r[2] <= q[2]) \/ (q[2] <= r[2] /\ r[2] <= p[2])

\* the closed segments a-b and c-d have a point in common
SegmentsMeet(a, b, c, d) ==
    \/ /\ SideOfRay(a, VecSubtract(b, a), c) * SideOfRay(a, VecSubtract(b, a), d) < 0
       /\ SideOfRay(c, VecSubtract(d, c), a) * SideOfRay(c, VecSubtract(d, c), b) < 0
    \/ OnSegment(a, b, c) \/ OnSegment(a, b, d)
    \/ OnSegment(c, d, a) \/ OnSegment(c, d, b)

\* a simple polygon: different vertices, and edges that meet only where consecutive
\* edges share their vertex
SimpleRing(ring) ==
    LET n == Len(ring)
        nx(i) == (i % n) + 1
    IN  /\ \A i, j \in 1 .. n : ring[i] = ring[j] => i = j
        /\ \A i \in 1 .. n : ~OnSegment(ring[i], ring[nx(i)], ring[nx(nx(i))])
        /\ \A i \in 1 .. n : ~OnSegment(ring[nx(i)], ring[nx(nx(i))], ring[i])
        /\ \A i, j \in 1 .. n :
               (j # i /\ j # nx(i) /\ i # nx(j)) =>
                   ~SegmentsMeet(ring[i], ring[nx(i)], ring[j], ring[nx(j)])

(***************************************************************************)
(* C22 as stated, for every simple polygon: with a ray through a vertex v, *)
(* parallel to neither adjacent edge, Polygon.raycast reports blocked if   *)
(* and only if the two vertices adjacent to v lie strictly on opposite     *)
(* sides of the ray's line.                                                *)
(***************************************************************************)
C22_BlockedIffOpposite ==
    (call.op = "raycast" /\ SimpleRing(polygons[1].verts)) =>
        \A i \in 1 .. Len(polygons[1].verts) :
            ThroughVertex(polygons[1], call.origin, call.direction, i) =>
                (result.blocked <=> NeighboursOpposite(polygons[1], call.origin, call.direction, i))

(***************************************************************************)
(* shapes.py: one RaycastResult object on its own, under any sequence of   *)
(* add_segment calls.  The segments passed have 0 <= start <= stop <= 1    *)
(* and side -1 or 1, as _raycast_segment makes them.  In this              *)
(* specification result is the RaycastResult and call is the record        *)
(* [op, segment, returned].                                                *)
(***************************************************************************)
MaxDen == 2

\* the ray parameters: the fractions of 0 .. 1 with a denominator up to MaxDen
RayParameters ==
    {Frac(nd[1], nd[2]) : nd \in {x \in (0 .. MaxDen) \X (1 .. MaxDen) : x[1] <= x[2]}}

RaycastSegments ==
    {seg \in {Segment(start, stop, side) :
                  start \in RayParameters, stop \in RayParameters, side \in {-1, 1}} :
         FLeq(seg.start, seg.stop)}

SegmentCall(op, segment, returned) == [op |-> op, segment |-> segment, returned |-> returned]

InitSegments ==
    /\ polygons = << >>
    /\ obstacles = {}
    /\ nodes = << >>
    /\ call = SegmentCall("RaycastResult", << >>, FALSE)
    /\ result = NewRaycastResult
    /\ lock = NoThread
    /\ adding = [t \in Threads |-> Idle]
    /\ astar_sets = << >>
    /\ search = NoSearch

\* result.add_segment(segment)
AddSegmentCall ==
    \E segment \in RaycastSegments :
        /\ result' = AddSegment(result, segment)
        /\ call' = SegmentCall("add_segment", << segment >>, result'.blocked)
        /\ UNCHANGED << polygons, obstacles, nodes, lock, adding, astar_sets, search >>

NextSegments == AddSegmentCall

SpecSegments == InitSegments /\ [][NextSegments]_vars

\* the closed intervals of two segments have a point in common
Overlap(p, q) == FLeq(p.start, q.stop) /\ FLeq(q.start, p.stop)

(***************************************************************************)
(* C23.  add_segment on a result that is not blocked: when the new segment *)
(* overlaps a stored segment of the other side, whatever the kind of       *)
(* overlap (the stored segment may start before, at or after the start of  *)
(* the new one), the result becomes blocked and add_segment returns True.  *)
(***************************************************************************)
C23_OppositeOverlapBlocks ==
    [][(/\ call'.op = "add_segment"
        /\ ~result.blocked
        /\ \E k \in 1 .. Len(result.segments) :
               /\ Overlap(result.segments[k], call'.segment[1])
               /\ result.segments[k].side # call'.segment[1].side) =>
           (result'.blocked /\ call'.returned)]_vars

(***************************************************************************)
(* C24.  After any sequence of add_segment calls, a result that is not     *)
(* blocked stores its segments sorted by start and pairwise disjoint: no   *)
(* two stored segments overlap or share a point.                           *)
(***************************************************************************)
C24_SegmentsDisjointSorted ==
    ~result.blocked =>
        \A i, j \in 1 .. Len(result.segments) :
            i < j => /\ FLess(result.segments[i].start, result.segments[j].start)
                     /\ ~Overlap(result.segments[i], result.segments[j])

(***************************************************************************)
(* shapes.py: one Polygon object on its own, with calls of                 *)
(* vertex_vector_direction_too_narrow(v, x, y) at its vertices.  In this   *)
(* specification call is [op, obstacle, origin, direction] with the vertex *)
(* v for origin and (x, y) for direction, and result is the boolean        *)
(* returned.                                                               *)
(***************************************************************************)
ShapeDirections == (-ShapeMax .. ShapeMax) \X (-ShapeMax .. ShapeMax)

\* polygon.vertex_vector_direction_too_narrow(v, x, y); v is a key of vertex_map
ShapeTooNarrow ==
    \E v \in ShapePoints, direction \in ShapeDirections :
        /\ call.op = "Polygon"
        /\ InVertexMap(polygons[1], v)
        /\ call' = ShapeCall("too_narrow", 1, v, direction)
        /\ result' = VertexVectorDirectionTooNarrow(polygons[1], v, direction[1], direction[2])
        /\ UNCHANGED << polygons, obstacles, nodes, lock, adding, astar_sets, search >>

NextNarrow == ShapeConstruct \/ ShapeTooNarrow

SpecNarrow == InitShapes /\ [][NextNarrow]_vars

\* the direction points strictly into the interior angle of the convex vertex vert of
\* a counter-clockwise ring: strictly between the edge to the next vertex and the
\* edge back to the previous one
IntoInterior(vert, direction) ==
    /\ CrossProduct(vert.vec_to_next_vertex, direction) > 0
    /\ CrossProduct(direction, << -vert.vec_from_prev_vertex[1],
                                  -vert.vec_from_prev_vertex[2] >>) > 0

(***************************************************************************)
(* C25.  At a convex vertex v, vertex_vector_direction_too_narrow(v, dx,   *)
(* dy) returns true exactly when (dx, dy) points strictly into the         *)
(* interior angle of the polygon at v; the exact opposite of an interior   *)
(* direction points away from the polygon and is not too narrow.           *)
(***************************************************************************)
C25_TooNarrowIffInterior ==
    (call.op = "too_narrow" /\ VertexMapAt(polygons[1], call.origin).convex) =>
        (result <=> IntoInterior(VertexMapAt(polygons[1], call.origin), call.direction))

\* the direction d is parallel to one of the two edges adjacent to the vertex v of o
ParallelToAdjacentEdge(o, v, d) ==
    \/ CrossProduct(VertexMapAt(o, v).vec_from_prev_vertex, d) = 0
    \/ CrossProduct(VertexMapAt(o, v).vec_to_next_vertex, d) = 0

\* the step is an add_obstacle(o) that returned
Inserted(o) == AddObstacleStep(o) /\ call'.raised = "" /\ o \notin obstacles

\* the step is add_obstacle(o): p is a non-concave convex vertex of o, q another
\* non-concave node, and the direction from p to q is parallel to an edge of o at p
ParallelCase(o, p, q) ==
    /\ p # q
    /\ ~Concave(nodes'[p]) /\ ~Concave(nodes'[q])
    /\ o \in nodes'[p].convex
    /\ ParallelToAdjacentEdge(polygons'[o], p, VecSubtract(q, p))

\* the line through the vertex v of o with direction d stays out of the interior
\* angle at v: neither d nor its opposite points strictly into it
PassesBeside(o, v, d) ==
    /\ ~IntoInterior(VertexMapAt(o, v), d)
    /\ ~IntoInterior(VertexMapAt(o, v), << -d[1], -d[2] >>)

C27_ZeroEdgeNoContribution ==
    call.op = "raycast" =>
        \A i \in 1 .. Len(polygons[1].verts) :
            BakeVertex(polygons[1], i).vec_to_next_vertex = << 0, 0 >> =>
                EdgeYield(polygons[1], call.origin, call.direction, i) = SegFalse

(***************************************************************************)
(* C28.  Insertion is indivisible: an add_obstacle call either returns     *)
(* with the obstacle in the obstacle set, or fails and leaves the node     *)
(* table (nodes, touch registrations, connections) and the obstacle set    *)
(* exactly as they were before the call.                                   *)
(***************************************************************************)
C28_InsertionIndivisible ==
    [][call'.op = "add_obstacle" =>
           \/ call'.raised = "" /\ call'.obstacle \in obstacles'
           \/ call'.raised # "" /\ nodes' = nodes /\ obstacles' = obstacles]_vars

(***************************************************************************)
(* graph.py: a graph that grows by up to MaxGrow obstacles, rectangles of  *)
(* a small grid and a triangle, so that nodes that became concave meet     *)
(* further insertions.                                                     *)
(***************************************************************************)
MaxGrow == 3
GrowMax == 2

GrowPolygons ==
    {Rectangle(q[1], q[2], q[3], q[4]) :
         q \in {x \in (0 .. GrowMax) \X (0 .. GrowMax) \X (0 .. GrowMax) \X (0 .. GrowMax) :
                   x[1] < x[3] /\ x[2] < x[4]}}
        \union {Triangle}

\* graph.add_obstacle(o) with a new polygon object o
AddGrow ==
    \E o \in GrowPolygons :
        /\ Len(polygons) < MaxGrow
        /\ polygons' = Append(polygons, o)
        /\ DoAddObstacle(polygons', Len(polygons'))
        /\ result' = None
        /\ UNCHANGED << lock, adding, astar_sets, search >>

NextGrow == AddGrow \/ AddObstacleAgain

SpecGrow == Init /\ [][NextGrow]_vars

(***************************************************************************)
(* C29.  Concavity is monotone: a node that is concave has no connections, *)
(* and stays in the table, concave and without connections, through every  *)
(* further add_obstacle call.  A registration reports 'became concave'     *)
(* exactly when it takes concave_count from 0 to above 0, never for a      *)
(* convex touch.                                                           *)
(***************************************************************************)
C29_ConcavityMonotone ==
    /\ [](\A p \in DOMAIN nodes :
              Concave(nodes[p]) =>
                  /\ ConnectionsAll(nodes[p]) = {}
                  /\ \A q \in DOMAIN nodes : p \notin ConnectionsAll(nodes[q]))
    /\ [][\A p \in DOMAIN nodes :
              Concave(nodes[p]) => p \in DOMAIN nodes' /\ Concave(nodes'[p])]_vars
    /\ [](\A p \in DOMAIN nodes : \A o \in 1 .. MaxGrow : \A is_convex \in BOOLEAN :
              /\ TouchingAddBecameConcave(nodes[p], is_convex) <=>
                     (~Concave(nodes[p]) /\ Concave(TouchingAdd(nodes[p], o, is_convex)))
              /\ is_convex => ~TouchingAddBecameConcave(nodes[p], is_convex))

C29_Witness ==
    /\ call.op = "add_obstacle"
    /\ call.raised = ""
    /\ call.obstacle = 3
    /\ obstacles = {1, 2, 3}
    /\ \E p \in DOMAIN nodes :
          /\ 1 \in nodes[p].convex
          /\ 2 \in nodes[p].all \ nodes[p].convex
          /\ 3 \in nodes[p].all \ nodes[p].convex
          /\ nodes[p].concave_count = 2

\* the corners of a rectangle, and whether two of them are the ends of one side
Corners(o) == {o.verts[i] : i \in 1 .. Len(o.verts)}

SameSide(p, q) == p # q /\ (p[1] = q[1] \/ p[2] = q[2])

\* the graph holds one rectangle and nothing else was ever passed to it
OneRectangle == Len(polygons) = 1 /\ obstacles = {1} /\ polygons[1].rect

(***************************************************************************)
(* C30.  In a graph that holds exactly one Rectangle(l, b, r, t) the nodes *)
(* are its four corners, none is concave, and each is connected to exactly *)
(* the two corners it shares a side with: the sides are kept, no diagonal  *)
(* exists.  A find_path query whose direct ray the rectangle blocks is     *)
(* answered by a detour of three or four points from s to e whose          *)
(* intermediate waypoints are corners, two of them being the ends of one   *)
(* side.                                                                   *)
(***************************************************************************)
C30_SingleRectangle ==
    OneRectangle =>
        /\ DOMAIN nodes = Corners(polygons[1])
        /\ \A p \in DOMAIN nodes :
               /\ ~Concave(nodes[p])
               /\ ConnectionsAll(nodes[p]) = {q \in Corners(polygons[1]) : SameSide(p, q)}
        /\ (Returned /\ Blocked(call.start_point, call.end_point)) =>
               /\ result # None
               /\ Len(result) \in {3, 4}
               /\ result[1] = call.start_point
               /\ result[Len(result)] = call.end_point
               /\ \A i \in 2 .. (Len(result) - 1) : result[i] \in Corners(polygons[1])
               /\ Len(result) = 4 => SameSide(result[2], result[3])

C30_Witness ==
    /\ OneRectangle
    /\ Returned
    /\ Blocked(call.start_point, call.end_point)
    /\ result # None
    /\ Len(result) = 4
    /\ call.start_point \notin DOMAIN nodes
    /\ call.end_point \notin DOMAIN nodes

(***************************************************************************)
(* graph.py: queries that follow one another.  find_path and raycast read  *)
(* the node of a point with self._nodes.get (lines 272-273), iterate       *)
(* self._obstacles and the connections of nodes, and assign to local       *)
(* names only (result, sets, current, path).  After a query the next query *)
(* asks about the same two points, by either method.  After raycast,       *)
(* result is the RaycastResult returned.                                   *)
(***************************************************************************)
Queries == {"find_path", "raycast"}

\* self._nodes.get with a lookup that makes the node it does not find
NodesGetCreating(ns, point) == IF point \in DOMAIN ns THEN ns ELSE (point :> NewNode) @@ ns

\* the node table after self._nodes.get(point)
NodesGet(ns, point) == ns

\* the two points the next query asks about
QueryPoints ==
    IF call.op \in Queries THEN {<< call.start_point, call.end_point >>}
    ELSE Points \X Points

\* graph.find_path(start_point, end_point)
FindPathQuery ==
    \E se \in QueryPoints :
        LET Answered(r) ==
                /\ call' = Call("find_path", NoPolygon, se[1], se[2], r.raised)
                /\ result' = r.path
        IN  /\ Answered(FindPathOf(polygons, obstacles, nodes, se[1], se[2]))
            /\ nodes' = NodesGet(NodesGet(nodes, se[1]), se[2])
            /\ UNCHANGED << polygons, obstacles, lock, adding, astar_sets, search >>

\* graph.raycast(x0, y0, x1, y1)
RaycastQuery ==
    \E se \in QueryPoints :
        /\ call' = Call("raycast", NoPolygon, se[1], se[2], "")
        /\ result' = GraphRaycast(polygons, obstacles, se[1], se[2], NoPolygon)
        /\ UNCHANGED << polygons, obstacles, nodes, lock, adding, astar_sets, search >>

NextQueries == AddRectangle \/ AddPolygon \/ FindPathQuery \/ RaycastQuery

SpecQueries == Init /\ [][NextQueries]_vars

Connected(ns, p, q) ==
    \/ q \in ns[p].outgoing
    \/ q \in ns[p].incoming
    \/ p \in ns[q].outgoing
    \/ p \in ns[q].incoming

(***************************************************************************)
(* C32.  add_obstacle never connects two nodes that both existed before    *)
(* the call: between nodes of the table before the call the connections    *)
(* after it are among those before it, so every new connection has an end  *)
(* at a node the call created; no node leaves the table; and a connection  *)
(* the call removes is gone from both of its ends, in both directions.     *)
(***************************************************************************)
C32_NoLinkBetweenOldNodes ==
    [][call'.op = "add_obstacle" =>
           /\ DOMAIN nodes \subseteq DOMAIN nodes'
           /\ \A p \in DOMAIN nodes, q \in DOMAIN nodes :
                 /\ nodes'[p].outgoing \cap DOMAIN nodes \subseteq nodes[p].outgoing
                 /\ nodes'[p].incoming \cap DOMAIN nodes \subseteq nodes[p].incoming
                 /\ (q \in ConnectionsAll(nodes[p]) /\ q \notin nodes'[p].outgoing)
                        => ~Connected(nodes', p, q)
           /\ \A p \in DOMAIN nodes', q \in DOMAIN nodes' :
                 (Connected(nodes', p, q) /\ (p \notin DOMAIN nodes \/ q \notin DOMAIN nodes))
                     => /\ q \in nodes'[p].outgoing /\ q \in nodes'[p].incoming
                        /\ p \in nodes'[q].outgoing /\ p \in nodes'[q].incoming]_vars

\* the second obstacle was inserted: a node only it touches is connected to a node
\* of the first, and two corners of the first, both still usable, are not connected
C32_Witness ==
    /\ call.op = "add_obstacle"
    /\ call.raised = ""
    /\ call.obstacle = 2
    /\ obstacles = {1, 2}
    /\ \E p \in DOMAIN nodes, q \in DOMAIN nodes :
          /\ nodes[p].all = {2}
          /\ 1 \in nodes[q].all
          /\ q \in nodes[p].outgoing
    /\ \E p \in DOMAIN nodes, q \in DOMAIN nodes :
          /\ p # q
          /\ nodes[p].all = {1} /\ nodes[q].all = {1}
          /\ ~Concave(nodes[p]) /\ ~Concave(nodes[q])
          /\ (p[1] = q[1] \/ p[2] = q[2])
          /\ ~Connected(nodes, p, q)

(***************************************************************************)
(* bounding_box.py and quad_tree.py.  Under SpecQuad the obstacles are the *)
(* items of a quadtree and polygons[k] is the AABB object that obstacle k  *)
(* was added with; result is [top, root]: top is the tree seen from its    *)
(* topmost ancestor and root the path of quadrants from there down to the  *)
(* tree the caller holds (root = root.add(box, item)).  A QuadTree is the  *)
(* record [bounds, items, quadrant_one .. quadrant_four]; its parent is    *)
(* the tree one step up the path.  Coordinates are counted in units of     *)
(* 1 / QuadUnit, so that the centres of all the boxes a call can reach     *)
(* before the interpreter's recursion limit are exact, as they are in      *)
(* binary floating point.                                                  *)
(***************************************************************************)
QuadMax == 3           \* box coordinates range over 0 .. QuadMax
MaxItems == 2          \* items added to one tree
RecursionLimit == 6    \* nested calls the interpreter allows (sys.getrecursionlimit())

QuadUnit == 2 ^ RecursionLimit

\* AABB(left, bottom, right, top)
AABB(left, bottom, right, top) ==
    [left |-> left, bottom |-> bottom, right |-> right, top |-> top,
     x |-> (left + right) \div 2, y |-> (bottom + top) \div 2]

\* AABB.quadrant_one .. AABB.quadrant_four
AABBQuadrant(b, q) ==
    CASE q = 1 -> AABB(b.x, b.y, b.right, b.top)
      [] q = 2 -> AABB(b.left, b.y, b.x, b.top)
      [] q = 3 -> AABB(b.left, b.bottom, b.x, b.y)
      [] q = 4 -> AABB(b.x, b.bottom, b.right, b.y)

\* AABB.expand_as_quadrant_one .. AABB.expand_as_quadrant_four
ExpandAsQuadrant(b, q) ==
    CASE q = 1 -> AABB(2 * b.left - b.right, 2 * b.bottom - b.top, b.right, b.top)
      [] q = 2 -> AABB(b.left, 2 * b.bottom - b.top, 2 * b.right - b.left, b.top)
      [] q = 3 -> AABB(b.left, b.bottom, 2 * b.right - b.left, 2 * b.top - b.bottom)
      [] q = 4 -> AABB(2 * b.left - b.right, b.bottom, b.right, 2 * b.top - b.bottom)

\* one round of the loop of AABB.intersects_line_segment
LiangBarsky(u, p, q) ==
    IF u.outside THEN u
    ELSE IF p = 0 THEN [u EXCEPT !.outside = q < 0]
    ELSE IF p < 0
    THEN [u EXCEPT !.u_1 = IF FLess(@, Frac(q, p)) THEN Frac(q, p) ELSE @]
    ELSE [u EXCEPT !.u_2 = IF FLess(Frac(q, p), @) THEN Frac(q, p) ELSE @]

\* AABB.intersects_line_segment(ox, oy, dx, dy)
IntersectsLineSegment(b, ox, oy, dx, dy) ==
    LET Touches(u) ==
            /\ ~u.outside
            /\ FLeq(u.u_1, u.u_2)
            /\ FLeq(u.u_1, << 1, 1 >>)
            /\ FLeq(FZero, u.u_2)
    IN  Touches(LiangBarsky(LiangBarsky(LiangBarsky(LiangBarsky(
                [u_1 |-> FZero, u_2 |-> << 1, 1 >>, outside |-> FALSE],
                -dx, ox - b.left), dx, b.right - ox), -dy, oy - b.bottom), dy, b.top - oy))

\* QuadTree(bounds)
QuadTree(bounds) ==
    [bounds |-> bounds, items |-> {}, quadrant_one |-> None, quadrant_two |-> None,
     quadrant_three |-> None, quadrant_four |-> None]

Quadrant(tree, q) ==
    CASE q = 1 -> tree.quadrant_one
      [] q = 2 -> tree.quadrant_two
      [] q = 3 -> tree.quadrant_three
      [] q = 4 -> tree.quadrant_four

WithQuadrant(tree, q, child) ==
    CASE q = 1 -> [tree EXCEPT !.quadrant_one = child]
      [] q = 2 -> [tree EXCEPT !.quadrant_two = child]
      [] q = 3 -> [tree EXCEPT !.quadrant_three = child]
      [] q = 4 -> [tree EXCEPT !.quadrant_four = child]

\* QuadTree.quadrants, as the numbers of the quadrants that are not None
Quadrants(tree) == {q \in 1 .. 4 : Quadrant(tree, q) # None}

\* QuadTree.wholly_contains(aabb), on the bounds
WhollyContains(bounds, aabb) ==
    /\ bounds.left <= aabb.left
    /\ aabb.right <= bounds.right
    /\ bounds.bottom <= aabb.bottom
    /\ aabb.top <= bounds.top

RECURSIVE Subtree(_, _)
\* the tree at the end of a path of quadrants
Subtree(top, path) ==
    IF path = << >> THEN top ELSE Subtree(Quadrant(top, Head(path)), Tail(path))

RECURSIVE ReplaceSubtree(_, _, _)
\* top after the tree at the end of the path was updated in place
ReplaceSubtree(top, path, tree) ==
    IF path = << >> THEN tree
    ELSE WithQuadrant(top, Head(path),
                      ReplaceSubtree(Quadrant(top, Head(path)), Tail(path), tree))

\* lines 105-134: the quadrant add_without_expanding hands the box to, 0 for none
DescendInto(tree, box) ==
    IF box.left >= tree.bounds.x
    THEN IF box.bottom >= tree.bounds.y THEN 1
         ELSE IF box.top <= tree.bounds.y THEN 4 ELSE 0
    ELSE IF box.right <= tree.bounds.x
    THEN IF box.bottom >= tree.bounds.y THEN 2
         ELSE IF box.top <= tree.bounds.y THEN 3 ELSE 0
    ELSE 0

RECURSIVE AddWithoutExpanding(_, _, _, _)
\* tree.add_without_expanding(box, item) as the depth-th nested call: [tree, raised]
AddWithoutExpanding(tree, box, item, depth) ==
    IF depth > RecursionLimit THEN [tree |-> tree, raised |-> TRUE]
    ELSE LET Descend(q) ==
                 IF q = 0
                 THEN [tree |-> [tree EXCEPT !.items = @ \union {<< box, item >>}],
                       raised |-> FALSE]
                 ELSE LET Put(r) == [tree |-> WithQuadrant(tree, q, r.tree),
                                     raised |-> r.raised]
                      IN  Put(AddWithoutExpanding(
                                  IF Quadrant(tree, q) = None
                                  THEN QuadTree(AABBQuadrant(tree.bounds, q))
                                  ELSE Quadrant(tree, q),
                                  box, item, depth + 1))
         IN  Descend(DescendInto(tree, box))

\* lines 142-149 with expand_leftwards .. expand_upwards: the quadrant of its new
\* parent that a tree with these bounds becomes, 0 when the bounds hold the box
ExpandDirection(bounds, box) ==
    IF box.left < bounds.left THEN (IF box.bottom < bounds.bottom THEN 1 ELSE 4)
    ELSE IF box.bottom < bounds.bottom THEN (IF box.left < bounds.left THEN 1 ELSE 2)
    ELSE IF box.right > bounds.right THEN (IF box.bottom < bounds.bottom THEN 2 ELSE 3)
    ELSE IF box.top > bounds.top THEN (IF box.left < bounds.left THEN 4 ELSE 3)
    ELSE 0

RECURSIVE QuadTreeAdd(_, _, _, _, _, _)
\* self.add(box, item) as the depth-th nested call, self at the path self of top and
\* the caller's tree at the path root: [top, root, raised], root being the path of
\* the tree returned, or of the caller's tree when the call raised
QuadTreeAdd(top, self, root, box, item, depth) ==
    IF depth > RecursionLimit THEN [top |-> top, root |-> root, raised |-> TRUE]
    ELSE LET Expand(q) ==
                 IF q = 0
                 THEN LET Put(r) == [top |-> ReplaceSubtree(top, self, r.tree),
                                     root |-> IF r.raised THEN root ELSE self,
                                     raised |-> r.raised]
                      IN  Put(AddWithoutExpanding(Subtree(top, self), box, item, depth + 1))
                 ELSE IF self = << >>
                 THEN QuadTreeAdd(WithQuadrant(QuadTree(ExpandAsQuadrant(top.bounds, q)),
                                               q, top),
                                  << >>, << q >> \o root, box, item, depth + 1)
                 ELSE QuadTreeAdd(top, SubSeq(self, 1, Len(self) - 1), root, box, item,
                                  depth + 1)
         IN  Expand(ExpandDirection(Subtree(top, self).bounds, box))

RECURSIVE ItemsInOrder(_)
\* the items of a set of << box, item >> pairs in the order they were put in the dict
ItemsInOrder(items) ==
    IF items = {} THEN << >>
    ELSE LET first == CHOOSE bi \in items : \A other \in items : bi[2] <= other[2]
         IN  << first[2] >> \o ItemsInOrder(items \ {first})

RECURSIVE FindItemsOnLine(_, _, _, _, _)
\* tuple(tree.find_items_on_line(ox, oy, dx, dy))
FindItemsOnLine(tree, ox, oy, dx, dy) ==
    IF ~IntersectsLineSegment(tree.bounds, ox, oy, dx, dy) THEN << >>
    ELSE LET Below(q) ==
                 IF Quadrant(tree, q) = None THEN << >>
                 ELSE FindItemsOnLine(Quadrant(tree, q), ox, oy, dx, dy)
         IN  ItemsInOrder({bi \in tree.items :
                              IntersectsLineSegment(bi[1], ox, oy, dx, dy)})
                 \o Below(1) \o Below(2) \o Below(3) \o Below(4)

\* the boxes and the segments of the behaviours
QuadCoords == {g * QuadUnit : g \in 0 .. QuadMax}

Boxes ==
    {AABB(q[1], q[2], q[3], q[4]) :
        q \in {c \in QuadCoords \X QuadCoords \X QuadCoords \X QuadCoords :
                  c[1] <= c[3] /\ c[2] <= c[4]}}

\* << ox, oy, dx, dy >> between two points of the grid
LineSegments ==
    {<< o[1], o[2], e[1] - o[1], e[2] - o[2] >> :
        o \in QuadCoords \X QuadCoords, e \in QuadCoords \X QuadCoords}

\* the segments the behaviours query: those from two corners of the grid
QueryLines ==
    {s \in LineSegments : s[1] = s[2] /\ s[1] \in {0, QuadMax * QuadUnit}}

QuadCall(op, box, item, line, raised) ==
    [op |-> op, box |-> box, item |-> item, line |-> line, raised |-> raised]

\* root = QuadTree(AABB(1, 1, 2, 2))
InitQuad ==
    /\ polygons = << >>
    /\ obstacles = {}
    /\ nodes = << >>
    /\ call = QuadCall("QuadTree", None, NoPolygon, None, "")
    /\ result = [top |-> QuadTree(AABB(QuadUnit, QuadUnit, 2 * QuadUnit, 2 * QuadUnit)),
                 root |-> << >>,
                 returned |-> << >>]
    /\ lock = NoThread
    /\ adding = [t \in Threads |-> Idle]
    /\ astar_sets = << >>
    /\ search = NoSearch

\* root = root.add(box, item); the assignment is not reached when add raises
QuadTreeAddCall ==
    \E box \in Boxes :
        LET Ended(item, r) ==
                /\ polygons' = Append(polygons, box)
                /\ obstacles' = obstacles \union {item}
                /\ result' = [top |-> r.top, root |-> r.root, returned |-> << >>]
                /\ call' = QuadCall("add", box, item, None,
                                    IF r.raised THEN "RecursionError" ELSE "")
        IN  /\ Len(polygons) < MaxItems
            /\ Ended(Len(polygons) + 1,
                     QuadTreeAdd(result.top, result.root, result.root, box,
                                 Len(polygons) + 1, 1))
            /\ UNCHANGED << nodes, lock, adding, astar_sets, search >>

\* tuple(root.find_items_on_line(ox, oy, dx, dy))
FindItemsOnLineCall ==
    \E line \in QueryLines :
        /\ call.op # "find_items_on_line"
        /\ call' = QuadCall("find_items_on_line", None, NoPolygon, line, "")
        /\ result' = [result EXCEPT !.returned =
                          FindItemsOnLine(Subtree(result.top, result.root),
                                          line[1], line[2], line[3], line[4])]
        /\ UNCHANGED << polygons, obstacles, nodes, lock, adding, astar_sets, search >>

NextQuad == QuadTreeAddCall \/ FindItemsOnLineCall

SpecQuad == InitQuad /\ [][NextQuad]_vars

\* the paths of all the trees under a tree, its own path << >> included
RECURSIVE Paths(_)
Paths(tree) ==
    {<< >>} \union UNION {{<< q >> \o p : p \in Paths(Quadrant(tree, q))} : q \in Quadrants(tree)}

(***************************************************************************)
(* C34.  QuadTree.add(box, item) terminates for every box and every tree:  *)
(* the expansion outwards and the descent of add_without_expanding stop    *)
(* by themselves after finitely many levels, so the call returns, with the *)
(* item stored, and never runs into the interpreter's recursion limit;     *)
(* this includes a box of zero width and zero height.                      *)
(***************************************************************************)
C34_AddTerminates ==
    call.op = "add" =>
        /\ call.raised = ""
        /\ \E p \in Paths(result.top) :
              << call.box, call.item >> \in Subtree(result.top, p).items

\* the closed box and the closed segment from (ox, oy) to (ox + dx, oy + dy) have a
\* point in common: their extents overlap on both axes and the corners of the box
\* are not all strictly on one side of the segment's line
SegmentMeetsBox(b, ox, oy, dx, dy) ==
    LET Side(cx, cy) == dx * (cy - oy) - dy * (cx - ox)
        corners == {Side(b.left, b.bottom), Side(b.right, b.bottom),
                    Side(b.right, b.top), Side(b.left, b.top)}
    IN  /\ (IF dx > 0 THEN ox + dx ELSE ox) >= b.left
        /\ (IF dx > 0 THEN ox ELSE ox + dx) <= b.right
        /\ (IF dy > 0 THEN oy + dy ELSE oy) >= b.bottom
        /\ (IF dy > 0 THEN oy ELSE oy + dy) <= b.top
        /\ \E s \in corners : s >= 0
        /\ \E s \in corners : s <= 0

\* the paths, below a tree, of the trees whose items hold item k with its box
StoredAt(tree, k) == {p \in Paths(tree) : << polygons[k], k >> \in Subtree(tree, p).items}

\* the sequence yields each member of the set once and nothing else
YieldsExactly(yielded, S) ==
    /\ Len(yielded) = Cardinality(S)
    /\ {yielded[i] : i \in 1 .. Len(yielded)} = S

(***************************************************************************)
(* C33.  In a quadtree built by root = root.add(box, item), every item     *)
(* given to add is stored once, in a tree all of whose enclosing trees up  *)
(* to the root have bounds that wholly contain its box; the bounds of      *)
(* every child lie inside its parent's, also under the parents made by     *)
(* expanding outwards; and find_items_on_line on the root yields exactly   *)
(* the items whose box meets the segment, each once: what a linear scan    *)
(* over all the items yields.                                              *)
(***************************************************************************)
C33_QuadTreeFindsAll ==
    LET Sound(tree) ==
            /\ \A k \in obstacles :
                  /\ Cardinality(StoredAt(tree, k)) = 1
                  /\ \A p \in StoredAt(tree, k) : \A n \in 0 .. Len(p) :
                        WhollyContains(Subtree(tree, SubSeq(p, 1, n)).bounds, polygons[k])
            /\ \A p \in Paths(result.top) \ {<< >>} :
                  WhollyContains(Subtree(result.top, SubSeq(p, 1, Len(p) - 1)).bounds,
                                 Subtree(result.top, p).bounds)
            /\ call.op = "add" =>
                  \A line \in LineSegments :
                      YieldsExactly(FindItemsOnLine(tree, line[1], line[2], line[3], line[4]),
                                    {k \in obstacles :
                                        SegmentMeetsBox(polygons[k], line[1], line[2],
                                                        line[3], line[4])})
            /\ call.op = "find_items_on_line" =>
                  YieldsExactly(result.returned,
                                {k \in obstacles :
                                    SegmentMeetsBox(polygons[k], call.line[1], call.line[2],
                                                    call.line[3], call.line[4])})
    IN  call.op \in {"add", "find_items_on_line"} => Sound(Subtree(result.top, result.root))

(***************************************************************************)
(* obstacle.py: Rectangle(x0, y0, x1, y1) of the obstacle module and its   *)
(* line tests.  Under SpecRect polygons holds the one Rectangle that was   *)
(* constructed, and result the value the last call returned.               *)
(***************************************************************************)
RectMax == 4    \* the coordinates of the obstacle module's rectangles and segments

RectCoords == 0 .. RectMax

\* Rectangle(x0, y0, x1, y1) of obstacle.py
ObstacleRectangle(x0, y0, x1, y1) == [x0 |-> x0, y0 |-> y0, x1 |-> x1, y1 |-> y1]

\* Rectangle.touches_convex_hull(x, y)
TouchesConvexHull(self, x, y) ==
    self.x0 <= x /\ x <= self.x1 /\ self.y0 <= y /\ y <= self.y1

\* a < f < b for the integers a, b and the fraction f
FBetween(a, f, b) == FLess(<< a, 1 >>, f) /\ FLess(f, << b, 1 >>)

\* Rectangle.line_blocked_by_convex_hull(x0, y0, x1, y1)
LineBlockedByConvexHull(self, x0, y0, x1, y1) ==
    LET min_y == IF y0 < y1 THEN y0 ELSE y1
        max_y == IF y0 < y1 THEN y1 ELSE y0
        min_x == IF x0 < x1 THEN x0 ELSE x1
        max_x == IF x0 < x1 THEN x1 ELSE x0
        \* slope = rise / run, both taken as max - min
        rise == max_y - min_y
        run == max_x - min_x
        \* x1 + (y - y1) / slope and slope * (x - x1) + y1
        XInt(y) == Frac(x1 * rise + (y - y1) * run, rise)
        YInt(x) == Frac(rise * (x - x1) + y1 * run, run)
    IN  IF x0 = x1
        THEN self.x0 < x0 /\ x0 < self.x1 /\ max_y > self.y0 /\ self.y1 > min_y
        ELSE \/ /\ min_y <= self.y0 /\ self.y0 < max_y
                /\ FBetween(self.x0, XInt(self.y0), self.x1)
             \/ /\ min_x < self.x1 /\ self.x1 <= max_x
                /\ FBetween(self.y0, YInt(self.x1), self.y1)
             \/ /\ min_y < self.y1 /\ self.y1 <= max_y
                /\ FBetween(self.x0, XInt(self.y1), self.x1)
             \/ /\ min_x <= self.x0 /\ self.x0 < max_x
                /\ FBetween(self.y0, YInt(self.x0), self.y1)

\* BaseObstacle.blocks_line(x0, y0, x1, y1) on a Rectangle (is_convex is True)
BlocksLine(self, x0, y0, x1, y1) ==
    \/ TouchesConvexHull(self, x0, y0)
    \/ TouchesConvexHull(self, x1, y1)
    \/ LineBlockedByConvexHull(self, x0, y0, x1, y1)

ObstacleRectangles ==
    {ObstacleRectangle(q[1], q[2], q[3], q[4]) :
        q \in {c \in RectCoords \X RectCoords \X RectCoords \X RectCoords :
                  c[1] < c[3] /\ c[2] < c[4]}}

RectCall(op, line) == [op |-> op, line |-> line]

InitRect ==
    /\ polygons = << >>
    /\ obstacles = {}
    /\ nodes = << >>
    /\ call = RectCall("init", None)
    /\ result = None
    /\ lock = NoThread
    /\ adding = [t \in Threads |-> Idle]
    /\ astar_sets = << >>
    /\ search = NoSearch

\* Rectangle(x0, y0, x1, y1)
RectangleConstruct ==
    \E self \in ObstacleRectangles :
        /\ polygons = << >>
        /\ polygons' = << self >>
        /\ call' = RectCall("Rectangle", None)
        /\ UNCHANGED << obstacles, nodes, result, lock, adding, astar_sets, search >>

\* rectangle.line_blocked_by_convex_hull(x0, y0, x1, y1).  The call reads the four
\* fields of the rectangle and changes nothing, so what follows it is what follows
\* the state before it: the behaviours take each call from the state after the
\* construction
LineBlockedCall ==
    \E line \in RectCoords \X RectCoords \X RectCoords \X RectCoords :
        /\ call.op = "Rectangle"
        /\ call' = RectCall("line_blocked_by_convex_hull", line)
        /\ result' = LineBlockedByConvexHull(polygons[1], line[1], line[2], line[3], line[4])
        /\ UNCHANGED << polygons, obstacles, nodes, lock, adding, astar_sets, search >>

\* rectangle.blocks_line(x0, y0, x1, y1)
BlocksLineCall ==
    \E line \in RectCoords \X RectCoords \X RectCoords \X RectCoords :
        /\ call.op = "Rectangle"
        /\ call' = RectCall("blocks_line", line)
        /\ result' = BlocksLine(polygons[1], line[1], line[2], line[3], line[4])
        /\ UNCHANGED << polygons, obstacles, nodes, lock, adding, astar_sets, search >>

NextRect == RectangleConstruct \/ LineBlockedCall \/ BlocksLineCall

SpecRect == InitRect /\ [][NextRect]_vars

\* the closed segment has a point in the open interior of the rectangle: their
\* extents overlap in more than a point on both axes, and the rectangle has corners
\* strictly on both sides of the segment's line
ThroughOpenInterior(self, x0, y0, x1, y1) ==
    LET Side(cx, cy) == (x1 - x0) * (cy - y0) - (y1 - y0) * (cx - x0)
        corners == {Side(self.x0, self.y0), Side(self.x1, self.y0),
                    Side(self.x1, self.y1), Side(self.x0, self.y1)}
    IN  /\ (IF x0 < x1 THEN x1 ELSE x0) > self.x0
        /\ (IF x0 < x1 THEN x0 ELSE x1) < self.x1
        /\ (IF y0 < y1 THEN y1 ELSE y0) > self.y0
        /\ (IF y0 < y1 THEN y0 ELSE y1) < self.y1
        /\ \E s \in corners : s > 0
        /\ \E s \in corners : s < 0

(***************************************************************************)
(* C35.  For a Rectangle of the obstacle module and a segment whose two    *)
(* end points are outside the closed rectangle,                            *)
(* line_blocked_by_convex_hull is true exactly when the segment passes     *)
(* through the open interior of the rectangle, whichever way the segment   *)
(* runs, and the answer is the same with the end points exchanged.         *)
(***************************************************************************)
C35_BlockedIffThroughInterior ==
    (/\ call.op = "line_blocked_by_convex_hull"
     /\ ~TouchesConvexHull(polygons[1], call.line[1], call.line[2])
     /\ ~TouchesConvexHull(polygons[1], call.line[3], call.line[4]))
        => /\ result = ThroughOpenInterior(polygons[1], call.line[1], call.line[2],
                                           call.line[3], call.line[4])
           /\ result = LineBlockedByConvexHull(polygons[1], call.line[3], call.line[4],
                                               call.line[1], call.line[2])

(***************************************************************************)
(* obstacle.py: BaseObstacle.take_next_unique_id, statement by statement,  *)
(* called from __init__ by several threads.  Under SpecIds lock is the     *)
(* thread that holds unique_id_lock, adding[t] is where thread t is in its *)
(* call, call.next_unique_id holds the class attribute next_unique_id of   *)
(* the classes that have one of their own, and result lists the values     *)
(* take_next_unique_id returned, in the order it returned them.            *)
(***************************************************************************)
MaxIds == 5          \* obstacles constructed in one behaviour
NumIdThreads == 3    \* threads that construct obstacles

IdThreads == 1 .. NumIdThreads

\* the classes of the module; only Rectangle can be instantiated (BaseObstacle is
\* abstract: points is an abstractmethod)
ConcreteClasses == {"Rectangle"}

\* cls.next_unique_id: the attribute of the class itself, or else of BaseObstacle
NextUniqueId(table, cls) ==
    IF cls \in DOMAIN table THEN table[cls] ELSE table["BaseObstacle"]

\* cls.next_unique_id = value: always an attribute of cls itself
SetNextUniqueId(table, cls, value) ==
    [c \in DOMAIN table \union {cls} |-> IF c = cls THEN value ELSE table[c]]

\* a unique_id_lock that never makes a thread wait
UniqueIdLockAlwaysFree(holder, t) == TRUE

\* line 12: unique_id_lock can be acquired by thread t
UniqueIdLockFree(holder, t) == holder = NoThread

IdIdle == [pc |-> "idle", cls |-> "", loaded |-> 0, returned |-> 0]

InitIds ==
    /\ polygons = << >>
    /\ obstacles = {}
    /\ nodes = << >>
    /\ call = [next_unique_id |-> [c \in {"BaseObstacle"} |-> 1]]
    /\ result = << >>
    /\ lock = NoThread
    /\ adding = [t \in IdThreads |-> IdIdle]
    /\ astar_sets = << >>
    /\ search = NoSearch

\* lines 16-17: thread t constructs an obstacle and calls self.take_next_unique_id()
ObstacleInit(t) ==
    \E cls \in ConcreteClasses :
        /\ adding[t].pc = "idle"
        /\ Len(result) + Cardinality({u \in IdThreads : adding[u].pc # "idle"}) < MaxIds
        /\ adding' = [adding EXCEPT ![t] = [IdIdle EXCEPT !.pc = "take_next_unique_id",
                                                          !.cls = cls]]
        /\ UNCHANGED << polygons, obstacles, nodes, call, result, lock, astar_sets, search >>

\* line 12: with cls.unique_id_lock
UniqueIdLockAcquire(t) ==
    /\ adding[t].pc = "take_next_unique_id"
    /\ UniqueIdLockFree(lock, t)
    /\ lock' = t
    /\ adding' = [adding EXCEPT ![t].pc = "load"]
    /\ UNCHANGED << polygons, obstacles, nodes, call, result, astar_sets, search >>

\* line 13, first half: read cls.next_unique_id and add 1
UniqueIdLoad(t) ==
    /\ adding[t].pc = "load"
    /\ adding' = [adding EXCEPT ![t].pc = "store",
                                ![t].loaded = NextUniqueId(call.next_unique_id,
                                                           adding[t].cls) + 1]
    /\ UNCHANGED << polygons, obstacles, nodes, call, result, lock, astar_sets, search >>

\* line 13, second half: store the sum as cls.next_unique_id
UniqueIdStore(t) ==
    /\ adding[t].pc = "store"
    /\ call' = [call EXCEPT !.next_unique_id =
                    SetNextUniqueId(@, adding[t].cls, adding[t].loaded)]
    /\ adding' = [adding EXCEPT ![t].pc = "return"]
    /\ UNCHANGED << polygons, obstacles, nodes, result, lock, astar_sets, search >>

\* line 14: the value to return is cls.next_unique_id - 1
UniqueIdReturn(t) ==
    /\ adding[t].pc = "return"
    /\ adding' = [adding EXCEPT ![t].pc = "release",
                                ![t].returned = NextUniqueId(call.next_unique_id,
                                                             adding[t].cls) - 1]
    /\ UNCHANGED << polygons, obstacles, nodes, call, result, lock, astar_sets, search >>

\* the with block is left: the lock is released, the value is returned and
\* becomes self.unique_id (line 17)
UniqueIdLockRelease(t) ==
    /\ adding[t].pc = "release"
    /\ lock' = IF lock = t THEN NoThread ELSE lock
    /\ result' = Append(result, adding[t].returned)
    /\ polygons' = Append(polygons, [cls |-> adding[t].cls, unique_id |-> adding[t].returned])
    /\ adding' = [adding EXCEPT ![t] = IdIdle]
    /\ UNCHANGED << obstacles, nodes, call, astar_sets, search >>

NextIds ==
    \E t \in IdThreads :
        \/ ObstacleInit(t)
        \/ UniqueIdLockAcquire(t)
        \/ UniqueIdLoad(t)
        \/ UniqueIdStore(t)
        \/ UniqueIdReturn(t)
        \/ UniqueIdLockRelease(t)

SpecIds == InitIds /\ [][NextIds]_vars

(***************************************************************************)
(* C36.  Whatever the interleaving of the threads that construct           *)
(* obstacles, take_next_unique_id returns 1, 2, 3, ... in the order of its *)
(* returns, each value once, so two different obstacles never have the     *)
(* same unique_id and are never equal or hashed alike.                     *)
(***************************************************************************)
C36_UniqueIdsDistinct ==
    /\ \A i \in 1 .. Len(result) : result[i] = i
    /\ \A i \in 1 .. Len(polygons), j \in 1 .. Len(polygons) :
          i # j => polygons[i].unique_id # polygons[j].unique_id

\* a thread is between its load and its store while two others wait for the lock,
\* and obstacles were constructed before
C36_Witness ==
    /\ Len(result) >= 2
    /\ \E t \in IdThreads :
          /\ lock = t
          /\ adding[t].pc = "store"
          /\ \A u \in IdThreads \ {t} : adding[u].pc = "take_next_unique_id"

====
